---- MODULE Spec2Model ----
(***************************************************************************)
(* A model of the CNG station locator backend: the station-suggestion      *)
(* endpoint (bounding box, Haversine distance, score, sort), the station   *)
(* approval workflow, the admin token blacklist, subscription activation,  *)
(* the subscription gate and the in-memory rate limiter.                   *)
(*                                                                         *)
(* Numbers.  The code computes with IEEE doubles; the model uses integers  *)
(* in fixed point, one unit per quantity:                                  *)
(*   coordinates   milli-degrees            (19.076 deg  -> 19076)         *)
(*   angles        micro-radians                                           *)
(*   distances     metres                   (the code's km * 1000)         *)
(*   ratings       tenths of a star         (4.5 -> 45)                    *)
(*   scores        thousandths of a point   (100 -> 100000)                *)
(*   time          minutes                  (the code's ms / 60000)        *)
(* Strings are tuples of one-character strings, so that upper-casing,      *)
(* character filters, substrings and collation are computed.               *)
(***************************************************************************)
EXTENDS Integers, Sequences, FiniteSets, TLC

VARIABLES
    now,            \* Date.now(), in minutes
    stations,       \* table Station: id -> row
    owners,         \* table StationOwner: id -> row
    tickets,        \* table SupportTicket: id -> row
    replies,        \* table TicketReply: set of rows
    activityLogs,   \* table ActivityLog: set of rows
    notifications,  \* table Notification: set of rows
    payments,       \* table PaymentHistory: razorpayOrderId -> row
    calls,          \* the running calls of activateSubscription: process -> frame
    tokenBlacklist, \* lib/token-blacklist.ts: the Set of blacklisted tokens
    tokenExpiryMap, \* lib/token-blacklist.ts: token -> expiry time
    rateLimitStore, \* lib/rate-limit.ts: identifier -> { count, resetTime }
    rateLimitLog,   \* history: what rateLimit returned, call by call
    resp            \* the last request handled and the response it got

crmVars == <<stations, owners, tickets, replies, activityLogs, notifications>>
payVars == <<payments, calls>>
memVars == <<tokenBlacklist, tokenExpiryMap, rateLimitStore, rateLimitLog>>
vars == <<now, crmVars, payVars, memVars, resp>>

----------------------------------------------------------------------------
(* Generic helpers                                                         *)

Max(a, b) == IF a >= b THEN a ELSE b
Min(a, b) == IF a <= b THEN a ELSE b
Abs(x) == IF x < 0 THEN -x ELSE x

Has(r, f) == f \in DOMAIN r
Get(r, f, default) == IF f \in DOMAIN r THEN r[f] ELSE default

Range(s) == {s[i] : i \in DOMAIN s}
Last(s) == s[Len(s)]

RECURSIVE SqrtIter(_, _, _)
SqrtIter(n, lo, hi) ==
    IF lo >= hi THEN lo
    ELSE LET mid == (lo + hi + 1) \div 2
         IN IF mid * mid <= n THEN SqrtIter(n, mid, hi) ELSE SqrtIter(n, lo, mid - 1)

\* Math.sqrt on a fixed-point argument: the integer square root.
Sqrt(n) == SqrtIter(n, 0, 46340)

----------------------------------------------------------------------------
(* Strings                                                                 *)

Lower == <<"a","b","c","d","e","f","g","h","i","j","k","l","m",
           "n","o","p","q","r","s","t","u","v","w","x","y","z">>
Upper == <<"A","B","C","D","E","F","G","H","I","J","K","L","M",
           "N","O","P","Q","R","S","T","U","V","W","X","Y","Z">>
Digits == <<"0","1","2","3","4","5","6","7","8","9">>

IndexIn(seq, c) == CHOOSE i \in DOMAIN seq : seq[i] = c

\* String.prototype.toUpperCase, one character
UpperChar(c) == IF c \in Range(Lower) THEN Upper[IndexIn(Lower, c)] ELSE c
\* String.prototype.toLowerCase
LowerChar(c) == IF c \in Range(Upper) THEN Lower[IndexIn(Upper, c)] ELSE c
toLowerCase(s) == [i \in DOMAIN s |-> LowerChar(s[i])]
toUpperCase(s) == [i \in DOMAIN s |-> UpperChar(s[i])]

\* s.replace(/[^A-Z0-9]/g, '')
StripNonAlnum(s) == SelectSeq(s, LAMBDA c : c \in Range(Upper) \cup Range(Digits))

\* s.substring(0, n)
Substring0(s, n) == SubSeq(s, 1, Min(n, Len(s)))

\* Prisma { contains: q, mode: 'insensitive' } and { contains: q }
IsSubstring(q, s) ==
    \E i \in 0..(Len(s) - Len(q)) : SubSeq(s, i + 1, i + Len(q)) = q
ContainsInsensitive(s, q) == IsSubstring(toUpperCase(q), toUpperCase(s))
Contains(s, q) == IsSubstring(q, s)

\* Collation rank of a character of a name (names are upper-case letters,
\* digits and spaces in the model, where localeCompare is lexicographic).
CharRank(c) ==
    IF c \in Range(Digits) THEN IndexIn(Digits, c)
    ELSE IF c \in Range(Upper) THEN 10 + IndexIn(Upper, c)
    ELSE 0

RECURSIVE localeCompare(_, _)
localeCompare(a, b) ==
    IF Len(a) = 0 /\ Len(b) = 0 THEN 0
    ELSE IF Len(a) = 0 THEN -1
    ELSE IF Len(b) = 0 THEN 1
    ELSE IF CharRank(Head(a)) < CharRank(Head(b)) THEN -1
    ELSE IF CharRank(Head(a)) > CharRank(Head(b)) THEN 1
    ELSE localeCompare(Tail(a), Tail(b))

----------------------------------------------------------------------------
(* lib/api-utils.ts: calculateHaversineDistance, in fixed point            *)

EarthRadiusKm == 6371

\* toRad: milli-degrees -> micro-radians (pi/180 = 0.017453)
toRad(mdeg) == IF mdeg >= 0 THEN (mdeg * 17453) \div 1000
               ELSE -(((-mdeg) * 17453) \div 1000)

\* Math.sin for a small angle in micro-radians (|x| < 0.046): x - x^3/6
Sin(x) == LET ax == Abs(x)
              s == ax - (((ax * ax) \div 1000000) * ax) \div 6000000
          IN IF x >= 0 THEN s ELSE -s

\* Math.cos of an angle in micro-radians, result scaled by 10^4:
\* 1 - y^2/2 + y^4/24 - y^6/720 + y^8/40320 with y in 10^-4 rad
Cos(x) == LET y == Abs(x) \div 100
              y2 == (y * y) \div 10000
              y4 == (y2 * y2) \div 10000
              y6 == (y4 * y2) \div 10000
              y8 == (y4 * y4) \div 10000
          IN 10000 - y2 \div 2 + y4 \div 24 - y6 \div 720 + y8 \div 40320

\* 2 * Math.atan2(Math.sqrt(a), Math.sqrt(1 - a)) = 2 * asin(sqrt(a)), with a
\* scaled by 10^12 and the result in micro-radians: asin(s) = s + s^3/6
CentralAngle(a) ==
    LET s == Sqrt(a)
    IN 2 * (s + (((s * s) \div 1000000) * s) \div 6000000)

\* x / 2 on a signed angle
Half(x) == IF x >= 0 THEN x \div 2 ELSE -((-x) \div 2)

\* Distance in metres between two points given in milli-degrees.
calculateHaversineDistance(lat1, lon1, lat2, lon2) ==
    LET dLat == toRad(lat2 - lat1)
        dLon == toRad(lon2 - lon1)
        sLat == Sin(Half(dLat))
        sLon == Sin(Half(dLon))
        a == sLat * sLat
             + ((sLon * sLon) \div 1000) * ((Cos(toRad(lat1)) * Cos(toRad(lat2))) \div 100000)
        c == CentralAngle(a)
    IN (EarthRadiusKm * c) \div 1000

----------------------------------------------------------------------------
(* app/api/suggest-pumps/route.ts                                          *)

Undefined == "undefined"
Null == "null"

\* A null DateTime or number column (times and quantities are never negative)
NullDate == -1
NullNumber == NullDate

\* const stateMap: Record<string, string>
stateMap ==
    { <<<<"A","P">>, "Andhra Pradesh">>, <<<<"A","R">>, "Arunachal Pradesh">>,
      <<<<"A","S">>, "Assam">>, <<<<"B","R">>, "Bihar">>,
      <<<<"C","G">>, "Chhattisgarh">>, <<<<"G","A">>, "Goa">>,
      <<<<"G","J">>, "Gujarat">>, <<<<"H","R">>, "Haryana">>,
      <<<<"H","P">>, "Himachal Pradesh">>, <<<<"J","H">>, "Jharkhand">>,
      <<<<"K","A">>, "Karnataka">>, <<<<"K","L">>, "Kerala">>,
      <<<<"M","P">>, "Madhya Pradesh">>, <<<<"M","H">>, "Maharashtra">>,
      <<<<"M","N">>, "Manipur">>, <<<<"M","L">>, "Meghalaya">>,
      <<<<"M","Z">>, "Mizoram">>, <<<<"N","L">>, "Nagaland">>,
      <<<<"O","D">>, "Odisha">>, <<<<"O","R">>, "Odisha">>,
      <<<<"P","B">>, "Punjab">>, <<<<"R","J">>, "Rajasthan">>,
      <<<<"S","K">>, "Sikkim">>, <<<<"T","N">>, "Tamil Nadu">>,
      <<<<"T","S">>, "Telangana">>, <<<<"T","R">>, "Tripura">>,
      <<<<"U","P">>, "Uttar Pradesh">>, <<<<"U","K">>, "Uttarakhand">>,
      <<<<"W","B">>, "West Bengal">>, <<<<"D","L">>, "Delhi">>,
      <<<<"A","N">>, "Andaman and Nicobar">>, <<<<"C","H">>, "Chandigarh">>,
      <<<<"D","N">>, "Dadra and Nagar Haveli">>, <<<<"D","D">>, "Daman and Diu">>,
      <<<<"L","D">>, "Lakshadweep">>, <<<<"P","Y">>, "Puducherry">>,
      <<<<"B","H">>, "India">> }

\* A lookup of the plate's first two characters as they were typed
parseIndianPlateAsTyped(plate) ==
    IF \E e \in stateMap : e[1] = Substring0(plate, 2)
    THEN (CHOOSE e \in stateMap : e[1] = Substring0(plate, 2))[2]
    ELSE Null

\* parseIndianPlate(plate): the state, or Null (the code returns the pair
\* { regionCode, state } or null; its callers read only .state).
parseIndianPlate(plate) ==
    LET cleaned == StripNonAlnum(toUpperCase(plate))
        stateCode == Substring0(cleaned, 2)
    IN IF \E e \in stateMap : e[1] = stateCode
       THEN (CHOOSE e \in stateMap : e[1] = stateCode)[2]
       ELSE Null

\* regionInfo?.state
RegionState(body) ==
    IF Has(body, "plate") /\ Len(body.plate) > 0
    THEN LET st == parseIndianPlate(body.plate)
         IN IF st = Null THEN Undefined ELSE st
    ELSE Undefined

PartnerBonus == 20
SameStateBonus == 10
RatingWeight == 5
DistanceWeight == 2
BaseScore == 100

\* calculateStationScore returning the raw sum (no Math.max(0, ...))
calculateStationScoreUnclamped(station, distance, userState) ==
    BaseScore * 1000 - distance * DistanceWeight
    + (IF station.isPartner THEN PartnerBonus * 1000 ELSE 0)
    + station.rating * RatingWeight * 100
    + (IF userState # Undefined /\ station.state = userState
       THEN SameStateBonus * 1000 ELSE 0)

\* A score that ignores the partner flag
calculateStationScoreNoPartner(station, distance, userState) ==
    Max(0, BaseScore * 1000 - DistanceWeight * distance
           + RatingWeight * 100 * station.rating
           + (IF userState # Undefined /\ station.state = userState
              THEN SameStateBonus * 1000 ELSE 0))

\* calculateStationScore(station, distance, userState), in thousandths of a
\* point: distance in metres, station.rating in tenths.
calculateStationScore(station, distance, userState) ==
    LET s0 == BaseScore * 1000 - distance * DistanceWeight
        s1 == IF station.isPartner THEN s0 + PartnerBonus * 1000 ELSE s0
        s2 == s1 + station.rating * RatingWeight * 100
        s3 == IF userState # Undefined /\ station.state = userState
              THEN s2 + SameStateBonus * 1000 ELSE s2
    IN Max(0, s3)

\* parseFloat(x.toFixed(2)) on a value in thousandths: hundredths, rounded
\* to nearest.
toFixed2(x) == (x + 5) \div 10

\* suggestPumpsSchema.safeParse(body).success
SortFields == {"distance", "rating", "name"}
MinRadiusKm == 1
MaxRadiusKm == 100
suggestPumpsSchemaNoRange(body) ==
    /\ Has(body, "lat")
    /\ Has(body, "lng")

suggestPumpsSchema(body) ==
    /\ Has(body, "lat")
    /\ Has(body, "lng")
    /\ Has(body, "fuelType") => body.fuelType = <<"C","N","G">>
    /\ Has(body, "radiusKm") => body.radiusKm >= MinRadiusKm /\ body.radiusKm <= MaxRadiusKm
    /\ Has(body, "sortBy") => body.sortBy \in SortFields

\* sortBy: z.enum([...]).optional().default('distance'), and the destructuring
\* default sortBy = 'distance'
SortByOf(body) == IF Has(body, "sortBy") THEN body.sortBy ELSE "distance"

DefaultRadiusKm == 20
RadiusOf(body) == IF Has(body, "radiusKm") THEN body.radiusKm ELSE DefaultRadiusKm

KmPerDegree == 111

\* latDelta and lngDelta, in milli-degrees (rounded down: coordinates are
\* whole milli-degrees, so the comparison with the bounds is unchanged)
LatDelta(radiusKm) == (radiusKm * 1000) \div KmPerDegree
LngDelta(radiusKm, lat) == (radiusKm * 10000000) \div (KmPerDegree * Cos(toRad(lat)))

\* A falsy optional string: undefined or ''
Truthy(body, f) == Has(body, f) /\ Len(body[f]) > 0

\* The where clause of prisma.station.findMany in POST /api/suggest-pumps
SuggestWhere(body) ==
    [ latGte |-> body.lat - LatDelta(RadiusOf(body)),
      latLte |-> body.lat + LatDelta(RadiusOf(body)),
      lngGte |-> body.lng - LngDelta(RadiusOf(body), body.lat),
      lngLte |-> body.lng + LngDelta(RadiusOf(body), body.lat),
      fuelTypes |-> IF Truthy(body, "fuelType")
                    THEN [op |-> "contains", value |-> body.fuelType]
                    ELSE [op |-> "none"],
      search |-> IF Truthy(body, "searchQuery")
                 THEN [op |-> "contains_insensitive", value |-> body.searchQuery]
                 ELSE [op |-> "none"],
      approvalStatus |-> Undefined ]

\* Whether a Station row satisfies a where clause (the database's part)
MatchesWhere(st, where) ==
    /\ st.lat >= where.latGte /\ st.lat <= where.latLte
    /\ st.lng >= where.lngGte /\ st.lng <= where.lngLte
    /\ where.fuelTypes.op = "contains" => Contains(st.fuelTypes, where.fuelTypes.value)
    /\ where.search.op = "contains_insensitive" =>
          \/ ContainsInsensitive(st.name, where.search.value)
          \/ ContainsInsensitive(st.address, where.search.value)
          \/ ContainsInsensitive(st.city, where.search.value)
    /\ where.approvalStatus # Undefined => st.approvalStatus = where.approvalStatus

\* The rows of a table in primary-key order, as findMany returns them
RECURSIVE RowsUpTo(_, _)
RowsUpTo(db, n) ==
    IF n = 0 THEN <<>>
    ELSE IF n \in DOMAIN db THEN Append(RowsUpTo(db, n - 1), db[n])
    ELSE RowsUpTo(db, n - 1)
MaxKey(db) == IF DOMAIN db = {} THEN 0 ELSE CHOOSE k \in DOMAIN db : \A j \in DOMAIN db : j <= k
Rows(db) == RowsUpTo(db, MaxKey(db))

findMany(db, where) == SelectSeq(Rows(db), LAMBDA st : MatchesWhere(st, where))

\* The radius filter left out: every candidate of the bounding box is kept
WithinRadiusAlways(distance, radiusKm) == TRUE

\* "Skip stations outside the radius": distance in metres, radius in km
WithinRadius(distance, radiusKm) == ~(distance > radiusKm * 1000)

\* One element of stations.map(...): the suggestion, unrounded distance kept
\* aside for the filter
Suggestion(st, body) ==
    LET distance == calculateHaversineDistance(body.lat, body.lng, st.lat, st.lng)
        score == calculateStationScore(st, distance, RegionState(body))
    IN [ station |-> st, distance |-> toFixed2(distance), score |-> toFixed2(score) ]

\* The comparators of suggestions.sort(...)
Compare(sortBy, a, b) ==
    CASE sortBy = "distance" -> a.distance - b.distance
      [] sortBy = "rating" -> b.station.rating - a.station.rating
      [] sortBy = "name" -> localeCompare(a.station.name, b.station.name)
      [] OTHER -> b.score - a.score

\* Array.prototype.sort is stable: each element goes after every element that
\* does not compare greater than it.
RECURSIVE InsertSorted(_, _, _)
InsertSorted(sorted, x, sortBy) ==
    IF sorted = <<>> THEN <<x>>
    ELSE IF Compare(sortBy, Last(sorted), x) <= 0 THEN Append(sorted, x)
    ELSE Append(InsertSorted(SubSeq(sorted, 1, Len(sorted) - 1), x, sortBy), Last(sorted))

RECURSIVE SortSuggestions(_, _)
SortSuggestions(s, sortBy) ==
    IF s = <<>> THEN <<>>
    ELSE InsertSorted(SortSuggestions(SubSeq(s, 1, Len(s) - 1), sortBy), Last(s), sortBy)

PageSize == 30

\* The whole list, whatever its length
sliceNothing(s, n) == s

\* s.slice(0, n)
slice(s, n) == SubSeq(s, 1, Min(n, Len(s)))

\* The calls of calculateStationScore one request makes (a history of the
\* handler's run, kept with the response)
ScoreCalls(cands, body) ==
    { [ station |-> cands[i],
        distance |-> calculateHaversineDistance(body.lat, body.lng, cands[i].lat, cands[i].lng),
        userState |-> RegionState(body),
        result |-> calculateStationScore(cands[i],
                      calculateHaversineDistance(body.lat, body.lng, cands[i].lat, cands[i].lng),
                      RegionState(body)) ] :
      i \in { j \in DOMAIN cands :
                WithinRadius(calculateHaversineDistance(body.lat, body.lng,
                                                        cands[j].lat, cands[j].lng),
                             RadiusOf(body)) } }

\* POST /api/suggest-pumps: the response, with the query it sent to the
\* database ("query") and its calls of calculateStationScore ("scoreCalls")
SuggestPumps(db, body) ==
    IF Has(body, "malformed")
    THEN [ op |-> "suggest-pumps", body |-> body, status |-> 500,
           error |-> "Failed to suggest pumps", queried |-> FALSE ]
    ELSE IF ~suggestPumpsSchema(body)
    THEN [ op |-> "suggest-pumps", body |-> body, status |-> 400,
           error |-> "Validation failed", queried |-> FALSE ]
    ELSE
      LET where == SuggestWhere(body)
          cands == findMany(db, where)
          inRadius == SelectSeq(cands, LAMBDA st :
                          WithinRadius(calculateHaversineDistance(body.lat, body.lng, st.lat, st.lng),
                                       RadiusOf(body)))
          mapped == [ i \in DOMAIN inRadius |-> Suggestion(inRadius[i], body) ]
          suggestions == slice(SortSuggestions(mapped, SortByOf(body)), PageSize)
      IN IF Len(cands) = 0
         THEN [ op |-> "suggest-pumps", body |-> body, status |-> 200, success |-> TRUE,
                suggestions |-> <<>>, queried |-> TRUE, query |-> where, scoreCalls |-> {} ]
         ELSE [ op |-> "suggest-pumps", body |-> body, status |-> 200, success |-> TRUE,
                count |-> Len(suggestions),
                regionDetected |-> IF RegionState(body) = Undefined THEN Null
                                   ELSE RegionState(body),
                sortBy |-> SortByOf(body), radiusKm |-> RadiusOf(body),
                suggestions |-> suggestions,
                queried |-> TRUE, query |-> where, scoreCalls |-> ScoreCalls(cands, body) ]

----------------------------------------------------------------------------
(* The suggestion endpoint over a populated Station table                  *)

NumStations == 3

\* Station rows the table may hold (without their id): around Mumbai, on
\* and off the edge of the default 20 km radius, of every approval status.
StationPool ==
    { [ name |-> <<"S","H">>, address |-> <<"L","R">>, city |-> <<"M","U","M">>,
        state |-> "Maharashtra", lat |-> 19060, lng |-> 72830,
        fuelTypes |-> <<"C","N","G">>, isPartner |-> TRUE, rating |-> 45,
        approvalStatus |-> "approved", isVerified |-> TRUE, ownerId |-> Null,
        cngAvailable |-> TRUE,
        cngQuantityKg |-> NullNumber, cngUpdatedAt |-> NullDate ],
      [ name |-> <<"I","O">>, address |-> <<"S","V">>, city |-> <<"M","U","M">>,
        state |-> "Maharashtra", lat |-> 19114, lng |-> 72870,
        fuelTypes |-> <<"P","E","T">>, isPartner |-> FALSE, rating |-> 47,
        approvalStatus |-> "approved", isVerified |-> TRUE, ownerId |-> Null,
        cngAvailable |-> TRUE,
        cngQuantityKg |-> NullNumber, cngUpdatedAt |-> NullDate ],
      [ name |-> <<"B","P">>, address |-> <<"J","T">>, city |-> <<"T","H","A">>,
        state |-> "Maharashtra", lat |-> 19246, lng |-> 73057,
        fuelTypes |-> <<"C","N","G">>, isPartner |-> TRUE, rating |-> 40,
        approvalStatus |-> "approved", isVerified |-> TRUE, ownerId |-> Null,
        cngAvailable |-> TRUE,
        cngQuantityKg |-> NullNumber, cngUpdatedAt |-> NullDate ],
      [ name |-> <<"H","P">>, address |-> <<"N","H">>, city |-> <<"V","A","P">>,
        state |-> "Gujarat", lat |-> 19776, lng |-> 72877,
        fuelTypes |-> <<"C","N","G">>, isPartner |-> FALSE, rating |-> 0,
        approvalStatus |-> "rejected", isVerified |-> FALSE, ownerId |-> "o1",
        cngAvailable |-> TRUE,
        cngQuantityKg |-> NullNumber, cngUpdatedAt |-> NullDate ],
      [ name |-> <<"A","G">>, address |-> <<"J","R">>, city |-> <<"M","U","M">>,
        state |-> "Maharashtra", lat |-> 19099, lng |-> 72827,
        fuelTypes |-> <<"C","N","G">>, isPartner |-> FALSE, rating |-> 0,
        approvalStatus |-> "pending", isVerified |-> FALSE, ownerId |-> "o1",
        cngAvailable |-> TRUE,
        cngQuantityKg |-> NullNumber, cngUpdatedAt |-> NullDate ] }

WithId(row, id) == [ f \in DOMAIN row \cup {"id"} |-> IF f = "id" THEN id ELSE row[f] ]

\* Request bodies of POST /api/suggest-pumps
SuggestBase == [ lat |-> 19076, lng |-> 72877 ]
SuggestBodies ==
    { SuggestBase,
      SuggestBase @@ [ radiusKm |-> 20 ],
      SuggestBase @@ [ radiusKm |-> 5 ],
      SuggestBase @@ [ radiusKm |-> 100 ],
      SuggestBase @@ [ radiusKm |-> 100, sortBy |-> "rating" ],
      SuggestBase @@ [ sortBy |-> "distance" ],
      SuggestBase @@ [ sortBy |-> "rating" ],
      SuggestBase @@ [ sortBy |-> "name" ],
      SuggestBase @@ [ plate |-> <<"M","H","1","2","A","B">> ],
      SuggestBase @@ [ plate |-> <<"g","j","-","0","1">>, radiusKm |-> 100 ],
      SuggestBase @@ [ plate |-> <<"X","X","9">> ],
      SuggestBase @@ [ fuelType |-> <<"C","N","G">> ],
      SuggestBase @@ [ searchQuery |-> <<"m","u">> ],
      SuggestBase @@ [ radiusKm |-> 0 ],
      SuggestBase @@ [ radiusKm |-> 101 ],
      SuggestBase @@ [ sortBy |-> "score" ],
      [ lng |-> 72877 ],
      [ malformed |-> TRUE ] }

NoResp == [ op |-> "none" ]

\* The tables the suggestion endpoint never reads
NoCrm ==
    /\ owners = <<>>
    /\ tickets = <<>>
    /\ replies = {}
    /\ activityLogs = {}
    /\ notifications = {}

\* No payment recorded, no activation running
NoPay ==
    /\ payments = <<>>
    /\ calls = <<>>

\* The module-level stores of a process that has just started
NoMem ==
    /\ tokenBlacklist = {}
    /\ tokenExpiryMap = <<>>
    /\ rateLimitStore = <<>>
    /\ rateLimitLog = <<>>

InitSuggest ==
    /\ now = 0
    /\ NoCrm
    /\ NoPay
    /\ NoMem
    /\ \E f \in [1..NumStations -> StationPool] :
          stations = [ i \in 1..NumStations |-> WithId(f[i], i) ]
    /\ resp = NoResp

\* POST /api/suggest-pumps, for the request bodies of a set
PostSuggestPumpsOf(bodies) ==
    \E body \in bodies :
        /\ resp' = SuggestPumps(stations, body)
        /\ UNCHANGED <<now, crmVars, payVars, memVars>>

PostSuggestPumps == PostSuggestPumpsOf(SuggestBodies)

NextSuggest == PostSuggestPumps

SpecSuggest == InitSuggest /\ [][NextSuggest]_vars

----------------------------------------------------------------------------
(* Authentication: lib/auth.ts and the per-route verifyToken helpers.      *)
(* A bearer token is the payload jwt.verify returns for it: its role and   *)
(* subject; the token no secret signed has role "none".                    *)

OwnerToken(id) == [ role |-> "owner", id |-> id ]
AdminToken(id) == [ role |-> "admin", id |-> id ]
BadToken == [ role |-> "none", id |-> Null ]

\* verifyToken / verifyJwt + role check of the owner routes: the owner id or Null
verifyToken(token) == IF token.role = "owner" THEN token.id ELSE Null

\* verifyAdminToken of the admin routes: the admin id or Null
verifyAdminToken(token) == IF token.role = "admin" THEN token.id ELSE Null

----------------------------------------------------------------------------
(* lib/subscription.ts                                                     *)

GRACE_PERIOD_DAYS == 3
MinutesPerDay == 1440

\* Math.ceil(a / b) for b > 0
Ceil(a, b) == -((-a) \div b)

\* checkSubscription(ownerId): the fields requireActiveSubscription reads
checkSubscription(ownerId) ==
    IF ownerId \notin DOMAIN owners
    THEN [ isValid |-> FALSE, isExpired |-> FALSE, daysRemaining |-> 0 ]
    ELSE IF owners[ownerId].subscriptionType = Null \/ owners[ownerId].subscriptionEndsAt = NullDate
    THEN [ isValid |-> FALSE, isExpired |-> FALSE, daysRemaining |-> 0 ]
    ELSE LET timeDiff == owners[ownerId].subscriptionEndsAt - now
             daysRemaining == Ceil(timeDiff, MinutesPerDay)
         IN IF daysRemaining > 0
            THEN [ isValid |-> TRUE, isExpired |-> FALSE, daysRemaining |-> daysRemaining ]
            ELSE IF daysRemaining >= -GRACE_PERIOD_DAYS
            THEN [ isValid |-> TRUE, isExpired |-> TRUE, daysRemaining |-> daysRemaining ]
            ELSE [ isValid |-> FALSE, isExpired |-> TRUE, daysRemaining |-> daysRemaining ]

\* requireActiveSubscription(request): the status of the response it
\* returns, or 0 for null (the request may proceed)
requireActiveSubscription(token) ==
    IF token.role # "owner" THEN 401
    ELSE IF ~checkSubscription(token.id).isValid THEN 403
    ELSE 0

----------------------------------------------------------------------------
(* The owner and admin routes over stations and support tickets            *)

MaxStations == 1

\* The id the database gives the next Station row
NewStationId == MaxKey(stations) + 1

\* A falsy optional number: undefined or 0
TruthyNum(body, f) == Has(body, f) /\ body[f] # 0

\* JSON.stringify of an array of strings
RECURSIVE JsonItems(_)
JsonItems(list) ==
    IF list = <<>> THEN <<>>
    ELSE IF Len(list) = 1 THEN <<"\"">> \o list[1] \o <<"\"">>
    ELSE <<"\"">> \o list[1] \o <<"\"", ",">> \o JsonItems(Tail(list))
JsonStringify(list) == <<"[">> \o JsonItems(list) \o <<"]">>

\* The station rows the owner paths create.  Columns the code leaves to the
\* schema's defaults are isPartner (false), rating (0), cngAvailable (true),
\* cngQuantityKg and cngUpdatedAt (null).
SignupStationRow(id, ownerId, body) ==
    [ id |-> id, name |-> body.stationName, address |-> body.address, city |-> body.city,
      state |-> body.state, lat |-> body.lat, lng |-> body.lng,
      fuelTypes |-> <<"C","N","G">>, isPartner |-> FALSE, rating |-> 0,
      approvalStatus |-> "pending", isVerified |-> FALSE, ownerId |-> ownerId,
      cngAvailable |-> TRUE,
        cngQuantityKg |-> NullNumber, cngUpdatedAt |-> NullDate ]

ProfileStationRow(id, ownerId, body) ==
    [ id |-> id,
      name |-> IF Truthy(body, "companyName") THEN body.companyName
               ELSE Get(body, "name", <<>>) \o <<"'", "s">>,
      address |-> body.address, city |-> body.city,
      state |-> body.state, lat |-> body.lat, lng |-> body.lng,
      fuelTypes |-> <<"C","N","G">>, isPartner |-> FALSE, rating |-> 0,
      approvalStatus |-> "pending", isVerified |-> FALSE, ownerId |-> ownerId,
      cngAvailable |-> TRUE,
        cngQuantityKg |-> NullNumber, cngUpdatedAt |-> NullDate ]

\* A station row that takes its approval columns from the request body
RegisterStationRowTrusting(id, ownerId, body) ==
    [ id |-> id, name |-> body.name, address |-> body.address, city |-> body.city,
      state |-> body.state, lat |-> body.lat, lng |-> body.lng,
      fuelTypes |-> body.fuelTypes, isPartner |-> FALSE, rating |-> 0,
      approvalStatus |-> Get(body, "approvalStatus", "pending"),
      isVerified |-> Get(body, "isVerified", FALSE), ownerId |-> ownerId,
      cngAvailable |-> TRUE,
        cngQuantityKg |-> NullNumber, cngUpdatedAt |-> NullDate ]

RegisterStationRow(id, ownerId, body) ==
    [ id |-> id, name |-> body.name, address |-> body.address, city |-> body.city,
      state |-> body.state, lat |-> body.lat, lng |-> body.lng,
      fuelTypes |-> body.fuelTypes, isPartner |-> FALSE, rating |-> 0,
      approvalStatus |-> "pending", isVerified |-> FALSE, ownerId |-> ownerId,
      cngAvailable |-> TRUE,
        cngQuantityKg |-> NullNumber, cngUpdatedAt |-> NullDate ]

CreateStationRow(id, ownerId, data) ==
    [ id |-> id, name |-> data.name, address |-> data.address, city |-> data.city,
      state |-> data.state, lat |-> Get(data, "lat", 0), lng |-> Get(data, "lng", 0),
      fuelTypes |-> JsonStringify(Get(data, "fuelTypes", << <<"C","N","G">> >>)),
      isPartner |-> FALSE, rating |-> 0,
      approvalStatus |-> "pending", isVerified |-> FALSE, ownerId |-> ownerId,
      cngAvailable |-> TRUE,
        cngQuantityKg |-> NullNumber, cngUpdatedAt |-> NullDate ]

\* prisma.<table>.update({ where: { id }, data }): the columns data names
UpdateRow(row, data) ==
    [ f \in DOMAIN row |-> IF f \in DOMAIN data THEN data[f] ELSE row[f] ]

\* The fields of a body that are in a set
Pick(body, fields) == [ f \in DOMAIN body \cap fields |-> body[f] ]

\* Rows of ActivityLog and Notification; stationId 0 is a log row without one
LogRow(ownerId, stationId, action) ==
    [ ownerId |-> ownerId, stationId |-> stationId, action |-> action ]
AdminLogRow(adminId, stationId, action) ==
    [ adminId |-> adminId, stationId |-> stationId, action |-> action ]
NotificationRow(ownerId, title) == [ ownerId |-> ownerId, title |-> title ]

\* The stations of an owner, oldest first (rows are created in id order)
OwnStations(ownerId) == SelectSeq(Rows(stations), LAMBDA st : st.ownerId = ownerId)

\* The bearer tokens in circulation: one per registered owner (issued at
\* signup and login), the admin's, and one that does not verify
Tokens == { OwnerToken(o) : o \in DOMAIN owners } \cup { AdminToken("a1"), BadToken }

\* A null text column: like '', falsy wherever the code tests it
NullText == <<>>

\* POST /api/auth/subscriber/signup
OwnerIds == <<"o1", "o2", "o3">>
NewOwnerId == OwnerIds[Cardinality(DOMAIN owners) + 1]

SignupOwnerRow(id, body) ==
    [ id |-> id, email |-> toLowerCase(body.email),
      companyName |-> IF Truthy(body, "companyName") THEN body.companyName
                      ELSE IF Truthy(body, "stationName") THEN body.stationName
                      ELSE NullText,
      address |-> NullText, city |-> NullText, state |-> Null,
      status |-> "pending", profileComplete |-> FALSE,
      onboardingStep |-> IF Truthy(body, "stationName") THEN 2 ELSE 1,
      subscriptionType |-> Null, subscriptionEndsAt |-> NullDate ]

MinPasswordLength == 6

Signup(body) ==
    LET withStation == /\ Truthy(body, "stationName") /\ Truthy(body, "address")
                       /\ Truthy(body, "city") /\ Has(body, "state")
                       /\ TruthyNum(body, "lat") /\ TruthyNum(body, "lng")
        ownerId == NewOwnerId
        stationId == NewStationId
    IN IF ~(Truthy(body, "name") /\ Truthy(body, "email") /\ Truthy(body, "phone")
            /\ Truthy(body, "password"))
       THEN /\ resp' = [ op |-> "signup", body |-> body, status |-> 400 ]
            /\ UNCHANGED crmVars
       ELSE IF Len(body.password) < MinPasswordLength
       THEN /\ resp' = [ op |-> "signup", body |-> body, status |-> 400 ]
            /\ UNCHANGED crmVars
       ELSE IF \E o \in DOMAIN owners : owners[o].email = toLowerCase(body.email)
       THEN /\ resp' = [ op |-> "signup", body |-> body, status |-> 409 ]
            /\ UNCHANGED crmVars
       ELSE /\ withStation => stationId <= MaxStations
            /\ owners' = owners @@ (ownerId :> SignupOwnerRow(ownerId, body))
            /\ stations' = IF withStation
                           THEN stations @@ (stationId :> SignupStationRow(stationId, ownerId, body))
                           ELSE stations
            /\ activityLogs' = activityLogs
                 \cup (IF withStation THEN { LogRow(ownerId, stationId, "station_created") } ELSE {})
                 \cup { LogRow(ownerId, 0, "signup") }
            /\ notifications' = notifications \cup { NotificationRow(ownerId, "Welcome to CNG Bharat!") }
            /\ resp' = [ op |-> "signup", body |-> body, status |-> 201,
                         token |-> OwnerToken(ownerId) ]
            /\ UNCHANGED <<tickets, replies>>

\* POST /api/subscriber/profile: update the profile, and with coordinates
\* update or create the owner's first station
ProfileOwnerData(body) ==
    Pick(body, {"companyName", "address", "city", "state"})

\* name and phone are required at signup and never cleared
IsProfileComplete(owner) ==
    /\ Len(owner.companyName) > 0
    /\ Len(owner.address) > 0
    /\ Len(owner.city) > 0
    /\ owner.state # Null

UpdateProfile(token, body) ==
    LET ownerId == verifyToken(token)
        owner == UpdateRow(owners[ownerId], ProfileOwnerData(body))
        withStation == /\ Has(body, "lat") /\ Has(body, "lng") /\ Truthy(body, "address")
                       /\ Truthy(body, "city") /\ Has(body, "state")
        own == OwnStations(ownerId)
        stationId == NewStationId
    IN IF ownerId = Null
       THEN /\ resp' = [ op |-> "profile", token |-> token, body |-> body, status |-> 401 ]
            /\ UNCHANGED crmVars
       ELSE /\ (withStation /\ Len(own) = 0) => stationId <= MaxStations
            /\ owners' = [ owners EXCEPT ![ownerId] =
                             IF IsProfileComplete(owner) /\ ~owner.profileComplete
                             THEN UpdateRow(owner, [ profileComplete |-> TRUE, onboardingStep |-> 2 ])
                             ELSE owner ]
            /\ stations' =
                 IF ~withStation THEN stations
                 ELSE IF Len(own) > 0
                 THEN [ stations EXCEPT ![own[1].id] =
                          UpdateRow(@, Pick(body, {"lat", "lng", "address", "city", "state"})) ]
                 ELSE stations @@ (stationId :> ProfileStationRow(stationId, ownerId, body))
            /\ activityLogs' = activityLogs
                 \cup (IF withStation /\ Len(own) = 0
                       THEN { LogRow(ownerId, 0, "station_created") } ELSE {})
                 \cup { LogRow(ownerId, 0, "profile_updated") }
            /\ resp' = [ op |-> "profile", token |-> token, body |-> body, status |-> 200 ]
            /\ UNCHANGED <<tickets, replies, notifications>>

\* POST /api/subscriber/stations (the route with its own verifyToken):
\* register a station for approval
RegisterStation(token, body) ==
    LET ownerId == verifyToken(token)
        stationId == NewStationId
    IN IF ownerId = Null
       THEN /\ resp' = [ op |-> "register-station", token |-> token, body |-> body, status |-> 401 ]
            /\ UNCHANGED crmVars
       ELSE IF ~(/\ Truthy(body, "name") /\ Truthy(body, "address") /\ Truthy(body, "city")
                 /\ Has(body, "state") /\ TruthyNum(body, "lat") /\ TruthyNum(body, "lng")
                 /\ Truthy(body, "fuelTypes"))
       THEN /\ resp' = [ op |-> "register-station", token |-> token, body |-> body, status |-> 400 ]
            /\ UNCHANGED crmVars
       ELSE /\ stationId <= MaxStations
            /\ stations' = stations @@ (stationId :> RegisterStationRow(stationId, ownerId, body))
            /\ activityLogs' = activityLogs \cup { LogRow(ownerId, stationId, "station_created") }
            /\ notifications' = notifications
                 \cup { NotificationRow(ownerId, "Station Submitted for Review") }
            /\ resp' = [ op |-> "register-station", token |-> token, body |-> body,
                         status |-> 201, stationId |-> stationId ]
            /\ UNCHANGED <<owners, tickets, replies>>

\* stationSchema of the subscription-gated route.  States are names, all
\* within the schema's length limits.
MinNameLength == 2
MinAddressLength == 5
MaxLatitude == 90
MaxLongitude == 180
stationSchema(body) ==
    /\ Has(body, "name") /\ Len(body.name) >= MinNameLength
    /\ Has(body, "address") /\ Len(body.address) >= MinAddressLength
    /\ Has(body, "city") /\ Len(body.city) >= MinNameLength
    /\ Has(body, "state")
    /\ Has(body, "lat") => Abs(body.lat) <= MaxLatitude * 1000
    /\ Has(body, "lng") => Abs(body.lng) <= MaxLongitude * 1000

\* validation.data: the keys of the schema, unknown keys stripped
StationData(body) ==
    Pick(body, {"name", "address", "city", "state", "lat", "lng", "fuelTypes"})

\* POST /api/subscriber/stations (the route behind the subscription gate)
CreateStation(token, body) ==
    LET gate == requireActiveSubscription(token)
        stationId == NewStationId
    IN IF gate # 0
       THEN /\ resp' = [ op |-> "create-station", token |-> token, body |-> body, status |-> gate ]
            /\ UNCHANGED crmVars
       ELSE IF ~stationSchema(body)
       THEN /\ resp' = [ op |-> "create-station", token |-> token, body |-> body, status |-> 400 ]
            /\ UNCHANGED crmVars
       ELSE /\ stationId <= MaxStations
            /\ stations' = stations @@
                 (stationId :> CreateStationRow(stationId, token.id, StationData(body)))
            /\ resp' = [ op |-> "create-station", token |-> token, body |-> body,
                         status |-> 201, stationId |-> stationId ]
            /\ UNCHANGED <<owners, tickets, replies, activityLogs, notifications>>

\* An ownership check that looks the row up by id alone
FindByIdAlone(table, id, ownerId) == id \in DOMAIN table

\* prisma.<table>.findFirst({ where: { id, ownerId } }) finds a row
FindOwned(table, id, ownerId) == id \in DOMAIN table /\ table[id].ownerId = ownerId

\* PUT /api/subscriber/stations?id=...: the columns the handler copies from
\* the body when they are truthy
OwnerUpdateData(body) ==
    [ f \in { g \in {"name", "address", "city", "fuelTypes"} : Truthy(body, g) }
            \cup { g \in {"lat", "lng"} : TruthyNum(body, g) }
            \cup { g \in {"state"} : Has(body, g) } |-> body[f] ]

UpdateStation(token, stationId, body) ==
    LET ownerId == verifyToken(token)
    IN IF ownerId = Null
       THEN /\ resp' = [ op |-> "update-station", token |-> token, stationId |-> stationId,
                         body |-> body, status |-> 401 ]
            /\ UNCHANGED crmVars
       ELSE IF stationId = 0
       THEN /\ resp' = [ op |-> "update-station", token |-> token, stationId |-> stationId,
                         body |-> body, status |-> 400 ]
            /\ UNCHANGED crmVars
       ELSE IF ~FindOwned(stations, stationId, ownerId)
       THEN /\ resp' = [ op |-> "update-station", token |-> token, stationId |-> stationId,
                         body |-> body, status |-> 404 ]
            /\ UNCHANGED crmVars
       ELSE /\ stations' = [ stations EXCEPT ![stationId] = UpdateRow(@, OwnerUpdateData(body)) ]
            /\ activityLogs' = activityLogs \cup { LogRow(ownerId, stationId, "station_updated") }
            /\ resp' = [ op |-> "update-station", token |-> token, stationId |-> stationId,
                         body |-> body, status |-> 200 ]
            /\ UNCHANGED <<owners, tickets, replies, notifications>>

\* updateStationSchema of PUT /api/admin/stations/[id]
ApprovalStatuses == {"pending", "approved", "rejected"}
updateStationSchema(body) ==
    /\ Has(body, "name") => Len(body.name) >= 1
    /\ Has(body, "approvalStatus") => body.approvalStatus \in ApprovalStatuses
    /\ Has(body, "isVerified") => body.isVerified \in BOOLEAN
    /\ Has(body, "isPartner") => body.isPartner \in BOOLEAN

\* const { rejectionReason, ...updateData } = validation.data
AdminUpdateData(body) ==
    Pick(body, {"name", "address", "city", "state", "lat", "lng", "fuelTypes",
                "isPartner", "isVerified", "approvalStatus"})

\* PUT /api/admin/stations/[id]
AdminUpdateStation(token, stationId, body) ==
    LET adminId == verifyAdminToken(token)
        updateData == AdminUpdateData(body)
    IN IF adminId = Null
       THEN /\ resp' = [ op |-> "admin-update-station", token |-> token, stationId |-> stationId,
                         body |-> body, status |-> 401 ]
            /\ UNCHANGED crmVars
       ELSE IF ~updateStationSchema(body)
       THEN /\ resp' = [ op |-> "admin-update-station", token |-> token, stationId |-> stationId,
                         body |-> body, status |-> 400 ]
            /\ UNCHANGED crmVars
       ELSE IF stationId \notin DOMAIN stations
       THEN /\ resp' = [ op |-> "admin-update-station", token |-> token, stationId |-> stationId,
                         body |-> body, status |-> 404 ]
            /\ UNCHANGED crmVars
       ELSE /\ stations' = [ stations EXCEPT ![stationId] = UpdateRow(@, updateData) ]
            /\ activityLogs' = activityLogs \cup { AdminLogRow(adminId, stationId, "station_updated") }
            /\ notifications' =
                 IF /\ Has(updateData, "approvalStatus")
                    /\ stations[stationId].ownerId # Null
                    /\ updateData.approvalStatus \in {"approved", "rejected"}
                 THEN notifications \cup
                        { NotificationRow(stations[stationId].ownerId,
                                          IF updateData.approvalStatus = "approved"
                                          THEN "Station approved" ELSE "Station rejected") }
                 ELSE notifications
            /\ resp' = [ op |-> "admin-update-station", token |-> token, stationId |-> stationId,
                         body |-> body, status |-> 200 ]
            /\ UNCHANGED <<owners, tickets, replies>>

----------------------------------------------------------------------------
(* The public station queries                                              *)

\* The text of a state's name, for the filters that search inside it
StateText(state) ==
    CASE state = "Maharashtra" -> <<"M","a","h","a","r","a","s","h","t","r","a">>
      [] state = "Gujarat" -> <<"G","u","j","a","r","a","t">>
      [] OTHER -> <<>>

Reverse(s) == [ i \in 1..Len(s) |-> s[Len(s) + 1 - i] ]

\* orderBy isPartner desc, createdAt desc over rows created in id order
PartnersFirstNewestFirst(rows) ==
    Reverse(SelectSeq(rows, LAMBDA st : st.isPartner))
        \o Reverse(SelectSeq(rows, LAMBDA st : ~st.isPartner))

\* orderBy isPartner desc alone
PartnersFirst(rows) ==
    SelectSeq(rows, LAMBDA st : st.isPartner) \o SelectSeq(rows, LAMBDA st : ~st.isPartner)

DefaultListRadiusKm == 10
DefaultListLimit == 50

\* Math.min(100, Math.max(1, radius))
ListRadius(params) == Min(MaxRadiusKm, Max(MinRadiusKm, Get(params, "radius", DefaultListRadiusKm)))

\* The where clause of GET /api/stations, applied to a row
MatchesList(st, params) ==
    /\ st.approvalStatus = "approved"
    /\ st.isVerified = TRUE
    /\ Truthy(params, "city") => ContainsInsensitive(st.city, params.city)
    /\ Truthy(params, "state") => ContainsInsensitive(StateText(st.state), params.state)
    /\ Truthy(params, "fuelType") => Contains(st.fuelTypes, params.fuelType)
    /\ (TruthyNum(params, "lat") /\ TruthyNum(params, "lng")) =>
          /\ st.lat >= params.lat - LatDelta(ListRadius(params))
          /\ st.lat <= params.lat + LatDelta(ListRadius(params))
          /\ st.lng >= params.lng - LngDelta(ListRadius(params), params.lat)
          /\ st.lng <= params.lng + LngDelta(ListRadius(params), params.lat)

\* GET /api/stations: the response for the first page
ListStations(db, params) ==
    LET found == slice(PartnersFirstNewestFirst(
                           SelectSeq(Rows(db), LAMBDA st : MatchesList(st, params))),
                       DefaultListLimit)
        withDistance ==
            [ i \in DOMAIN found |->
                [ station |-> found[i],
                  distance |-> calculateHaversineDistance(params.lat, params.lng,
                                                          found[i].lat, found[i].lng) ] ]
        result == IF TruthyNum(params, "lat") /\ TruthyNum(params, "lng")
                  THEN LET sorted == SortSuggestions(withDistance, "distance")
                       IN [ i \in DOMAIN sorted |-> sorted[i].station ]
                  ELSE found
    IN [ op |-> "list-stations", params |-> params, status |-> 200, success |-> TRUE,
         count |-> Len(result), stations |-> result ]

DefaultSearchRadiusKm == 50
DefaultSearchLimit == 20
MaxSearchLimit == 50

searchStationsSchema(body) ==
    /\ Has(body, "query") /\ Len(body.query) >= 1
    /\ Has(body, "fuelTypes") => \A i \in DOMAIN body.fuelTypes : body.fuelTypes[i] = <<"C","N","G">>
    /\ Has(body, "radiusKm") => body.radiusKm >= MinRadiusKm /\ body.radiusKm <= MaxRadiusKm
    /\ Has(body, "limit") => body.limit >= 1 /\ body.limit <= MaxSearchLimit

\* The where clause of POST /api/stations/search, applied to a row
MatchesSearch(st, body) ==
    LET radiusKm == Get(body, "radiusKm", DefaultSearchRadiusKm)
    IN /\ \/ ContainsInsensitive(st.name, body.query)
          \/ ContainsInsensitive(st.address, body.query)
          \/ ContainsInsensitive(st.city, body.query)
          \/ ContainsInsensitive(StateText(st.state), body.query)
       /\ Has(body, "fuelTypes") =>
             \A i \in DOMAIN body.fuelTypes : Contains(st.fuelTypes, body.fuelTypes[i])
       /\ (Has(body, "lat") /\ Has(body, "lng")) =>
             /\ st.lat >= body.lat - LatDelta(radiusKm)
             /\ st.lat <= body.lat + LatDelta(radiusKm)
             /\ st.lng >= body.lng - LngDelta(radiusKm, body.lat)
             /\ st.lng <= body.lng + LngDelta(radiusKm, body.lat)

\* One element of the result list; distance is null (-1 here) unless lat,
\* lng and the distance itself are truthy
SearchResult(st, body) ==
    [ id |-> st.id, name |-> st.name, city |-> st.city, state |-> st.state,
      isPartner |-> st.isPartner, rating |-> 0,
      distance |-> IF /\ TruthyNum(body, "lat") /\ TruthyNum(body, "lng")
                      /\ calculateHaversineDistance(body.lat, body.lng, st.lat, st.lng) # 0
                   THEN toFixed2(calculateHaversineDistance(body.lat, body.lng, st.lat, st.lng))
                   ELSE -1 ]

\* POST /api/stations/search: the response
SearchStations(db, body) ==
    IF ~searchStationsSchema(body)
    THEN [ op |-> "search", body |-> body, status |-> 400, error |-> "Validation failed" ]
    ELSE
      LET radiusKm == Get(body, "radiusKm", DefaultSearchRadiusKm)
          limit == Get(body, "limit", DefaultSearchLimit)
          found == slice(PartnersFirst(SelectSeq(Rows(db), LAMBDA st : MatchesSearch(st, body))),
                         limit * 2)
          mapped == [ i \in DOMAIN found |-> SearchResult(found[i], body) ]
          results == IF Has(body, "lat") /\ Has(body, "lng")
                     THEN SortSuggestions(
                            SelectSeq(mapped, LAMBDA r : r.distance # -1 /\ r.distance <= radiusKm * 100),
                            "distance")
                     ELSE mapped
      IN [ op |-> "search", body |-> body, status |-> 200, success |-> TRUE,
           count |-> Len(slice(results, limit)), stations |-> slice(results, limit) ]

\* GET /api/stations/search?q=...: the body it hands to POST
SearchBodyOfParams(params) ==
    LET withLocation == TruthyNum(params, "lat") /\ TruthyNum(params, "lng")
        fields == {"query"} \cup (IF withLocation THEN {"lat", "lng"} ELSE {})
                            \cup (IF Truthy(params, "fuelType") THEN {"fuelTypes"} ELSE {})
    IN [ f \in fields |-> CASE f = "query" -> params.q
                             [] f = "fuelTypes" -> <<params.fuelType>>
                             [] OTHER -> params[f] ]

SearchStationsByGet(db, params) ==
    IF ~Truthy(params, "q")
    THEN [ op |-> "search", body |-> params, status |-> 400,
           error |-> "Query parameter \"q\" is required" ]
    ELSE SearchStations(db, SearchBodyOfParams(params))

----------------------------------------------------------------------------
(* The approval workflow: owners create and edit stations, the admin       *)
(* approves them, the public routes list them                              *)

\* Fields an owner may add to any body in the hope of self-approval
SelfApproval == [ approvalStatus |-> "approved", isVerified |-> TRUE ]

StationBody ==
    [ name |-> <<"A","G">>, address |-> <<"J","R","O","A","D">>, city |-> <<"M","U","M">>,
      state |-> "Maharashtra", lat |-> 19099, lng |-> 72827 ]

SignupBase ==
    [ name |-> <<"N">>, email |-> <<"E","2">>, phone |-> <<"9">>,
      password |-> <<"s","e","c","r","e","t">> ]
SignupStation ==
    [ stationName |-> <<"B","G">>, address |-> <<"J","R","O","A","D">>, city |-> <<"M","U","M">>,
      state |-> "Maharashtra", lat |-> 19099, lng |-> 72827 ]
SignupBodies ==
    { SignupBase,
      SignupBase @@ SignupStation @@ SelfApproval,
      [ SignupBase EXCEPT !.password = <<"a","b","c">> ],
      [ email |-> <<"E","2">>, password |-> <<"s","e","c","r","e","t">> ] }

Request(token, body) == [ token |-> token, body |-> body ]
RequestAt(token, id, body) == [ token |-> token, id |-> id, body |-> body ]

ProfileRequests ==
    { Request(OwnerToken("o1"), [ companyName |-> <<"C","O">> ]),
      Request(OwnerToken("o1"),
              [ companyName |-> <<"C","O">>, address |-> <<"N","R","O","A","D">>,
                city |-> <<"M","U","M">>, state |-> "Maharashtra",
                lat |-> 19060, lng |-> 72830 ] @@ SelfApproval),
      Request(BadToken, [ companyName |-> <<"C","O">> ]) }

RegisterRequests ==
    { Request(OwnerToken("o1"), StationBody @@ [ fuelTypes |-> <<"C","N","G">> ] @@ SelfApproval),
      Request(OwnerToken("o1"), [ name |-> <<"A","G">> ]),
      Request(BadToken, StationBody @@ [ fuelTypes |-> <<"C","N","G">> ]) }

CreateRequests ==
    { Request(OwnerToken("o1"),
              StationBody @@ [ fuelTypes |-> << <<"C","N","G">> >> ] @@ SelfApproval),
      Request(OwnerToken("o1"), [ StationBody EXCEPT !.name = <<"A">> ]),
      Request(OwnerToken("o2"), StationBody),
      Request(AdminToken("a1"), StationBody) }

UpdateRequests ==
    { RequestAt(OwnerToken("o1"), id, [ name |-> <<"A","X">> ] @@ SelfApproval) :
        id \in 0..MaxStations }
      \cup { RequestAt(BadToken, 1, [ name |-> <<"A","X">> ]) }

AdminRequests ==
    { RequestAt(AdminToken("a1"), id, body) :
        id \in 1..MaxStations,
        body \in { [ approvalStatus |-> "approved", isVerified |-> TRUE ],
                   [ approvalStatus |-> "rejected" ] } }
      \cup { RequestAt(AdminToken("a1"), 1, [ approvalStatus |-> "published" ]),
             RequestAt(OwnerToken("o1"), 1, [ approvalStatus |-> "approved", isVerified |-> TRUE ]) }

ListParams ==
    { [ page |-> 1, city |-> <<"m","u","m">> ],
      [ page |-> 1, lat |-> 19076, lng |-> 72877, radius |-> 20 ] }

SearchBodies ==
    { [ query |-> <<"m","a","h","a">>, lat |-> 19076, lng |-> 72877 ],
      [ query |-> <<>> ] }

SearchParams ==
    { [ q |-> <<"m","u">>, fuelType |-> <<"C","N","G">> ],
      [ lat |-> 19076 ] }

CrmSuggestBodies == { SuggestBase, SuggestBase @@ [ radiusKm |-> 0 ] }

SubscriptionDays == 30

\* An owner who signed up earlier, completed nothing, and bought a plan
FirstOwner ==
    [ id |-> "o1", email |-> <<"e","1">>, companyName |-> NullText,
      address |-> NullText, city |-> NullText, state |-> Null,
      status |-> "pending", profileComplete |-> FALSE, onboardingStep |-> 1,
      subscriptionType |-> "basic", subscriptionEndsAt |-> SubscriptionDays * MinutesPerDay ]

InitCrm ==
    /\ now = 0
    /\ stations = <<>>
    /\ owners = ("o1" :> FirstOwner)
    /\ tickets = <<>>
    /\ replies = {}
    /\ activityLogs = {}
    /\ notifications = {}
    /\ NoPay
    /\ NoMem
    /\ resp = NoResp

\* A request is made with a token that is in circulation
Circulating(requests) == { r \in requests : r.token \in Tokens }

\* What no request of the approval workflow touches
CrmFrame == UNCHANGED <<now, payVars, memVars>>

PostSignup == \E body \in SignupBodies : Signup(body) /\ CrmFrame
PostProfileOf(requests) == \E r \in requests : UpdateProfile(r.token, r.body) /\ CrmFrame
PostProfile == PostProfileOf(Circulating(ProfileRequests))
PostRegisterStation ==
    \E r \in Circulating(RegisterRequests) : RegisterStation(r.token, r.body) /\ CrmFrame
PostCreateStation ==
    \E r \in Circulating(CreateRequests) : CreateStation(r.token, r.body) /\ CrmFrame
PutStationOf(requests) == \E r \in requests : UpdateStation(r.token, r.id, r.body) /\ CrmFrame
PutStation == PutStationOf(Circulating(UpdateRequests))
PutAdminStationOf(requests) ==
    \E r \in requests : AdminUpdateStation(r.token, r.id, r.body) /\ CrmFrame
PutAdminStation == PutAdminStationOf(Circulating(AdminRequests))
GetStations ==
    \E params \in ListParams :
        resp' = ListStations(stations, params) /\ UNCHANGED crmVars /\ CrmFrame
PostSearch ==
    \E body \in SearchBodies :
        resp' = SearchStations(stations, body) /\ UNCHANGED crmVars /\ CrmFrame
GetSearch ==
    \E params \in SearchParams :
        resp' = SearchStationsByGet(stations, params) /\ UNCHANGED crmVars /\ CrmFrame
PostSuggestPumpsCrm == PostSuggestPumpsOf(CrmSuggestBodies)

NextCrm ==
    \/ PostSignup
    \/ PostProfile
    \/ PostRegisterStation
    \/ PostCreateStation
    \/ PutStation
    \/ PutAdminStation
    \/ GetStations
    \/ PostSearch
    \/ GetSearch
    \/ PostSuggestPumpsCrm

SpecCrm == InitCrm /\ [][NextCrm]_vars

----------------------------------------------------------------------------
(* Owner routes that name a resource: CNG status and ticket replies         *)

\* updateStatusSchema of PUT /api/owner/cng-status
updateStatusSchema(body) ==
    /\ Has(body, "cngAvailable") => body.cngAvailable \in BOOLEAN
    /\ Has(body, "cngQuantityKg") => body.cngQuantityKg >= 0

\* cngQuantityKg !== undefined ? cngQuantityKg > 0 : cngAvailable ?? true
FinalCngAvailable(body) ==
    IF Has(body, "cngQuantityKg") THEN body.cngQuantityKg > 0
    ELSE Get(body, "cngAvailable", TRUE)

CngUpdateData(body) ==
    IF Has(body, "cngQuantityKg")
    THEN [ cngAvailable |-> FinalCngAvailable(body), cngUpdatedAt |-> now,
           cngQuantityKg |-> body.cngQuantityKg ]
    ELSE [ cngAvailable |-> FinalCngAvailable(body), cngUpdatedAt |-> now ]

\* PUT /api/owner/cng-status; the response records when it was given
UpdateCngStatus(token, body) ==
    LET gate == requireActiveSubscription(token)
        answer(status) == [ op |-> "cng-status", token |-> token, body |-> body,
                            status |-> status, at |-> now ]
    IN IF gate # 0
       THEN /\ resp' = answer(gate)
            /\ UNCHANGED crmVars
       ELSE IF ~updateStatusSchema(body)
       THEN /\ resp' = answer(400)
            /\ UNCHANGED crmVars
       ELSE IF TruthyNum(body, "stationId")
       THEN IF ~FindOwned(stations, body.stationId, token.id)
            THEN /\ resp' = answer(404)
                 /\ UNCHANGED crmVars
            ELSE /\ stations' = [ stations EXCEPT ![body.stationId] = UpdateRow(@, CngUpdateData(body)) ]
                 /\ activityLogs' = activityLogs
                      \cup { LogRow(token.id, body.stationId, "cng_status_updated") }
                 /\ resp' = answer(200)
                 /\ UNCHANGED <<owners, tickets, replies, notifications>>
       ELSE /\ stations' = [ id \in DOMAIN stations |->
                               IF stations[id].ownerId = token.id
                               THEN UpdateRow(stations[id], CngUpdateData(body))
                               ELSE stations[id] ]
            /\ activityLogs' = activityLogs \cup { LogRow(token.id, 0, "cng_status_updated") }
            /\ resp' = answer(200)
            /\ UNCHANGED <<owners, tickets, replies, notifications>>

ReplyRow(ticketId, message, ownerId) ==
    [ ticketId |-> ticketId, message |-> message, createdBy |-> ownerId,
      createdByType |-> "owner" ]

\* PUT /api/subscriber/support?id=...: reply to a ticket (id 0: no id given)
ReplyToTicket(token, ticketId, body) ==
    LET ownerId == verifyToken(token)
        answer(status) == [ op |-> "ticket-reply", token |-> token, ticketId |-> ticketId,
                            body |-> body, status |-> status ]
    IN IF ownerId = Null
       THEN /\ resp' = answer(401)
            /\ UNCHANGED crmVars
       ELSE IF ticketId = 0
       THEN /\ resp' = answer(400)
            /\ UNCHANGED crmVars
       ELSE IF ~Truthy(body, "message")
       THEN /\ resp' = answer(400)
            /\ UNCHANGED crmVars
       ELSE IF ~FindOwned(tickets, ticketId, ownerId)
       THEN /\ resp' = answer(404)
            /\ UNCHANGED crmVars
       ELSE /\ replies' = replies \cup { ReplyRow(ticketId, body.message, ownerId) }
            /\ tickets' = IF tickets[ticketId].status \in {"resolved", "closed"}
                          THEN [ tickets EXCEPT ![ticketId] = UpdateRow(@, [ status |-> "open" ]) ]
                          ELSE tickets
            /\ resp' = answer(201)
            /\ UNCHANGED <<stations, owners, activityLogs, notifications>>

----------------------------------------------------------------------------
(* Admin sessions: lib/token-blacklist.ts, POST /api/admin/logout and the  *)
(* admin-protected routes                                                  *)

BlacklistDays == 7

\* The request carries no Authorization header
NoToken == [ role |-> "absent", id |-> Null ]

\* The setInterval callback of the blacklist: drop the expired tokens
CleanupBlacklist ==
    /\ tokenBlacklist' = { t \in tokenBlacklist : ~(tokenExpiryMap[t] < now) }
    /\ tokenExpiryMap' = [ t \in { u \in DOMAIN tokenExpiryMap : ~(tokenExpiryMap[u] < now) } |->
                             tokenExpiryMap[t] ]
    /\ UNCHANGED <<now, crmVars, payVars, rateLimitStore, rateLimitLog, resp>>

\* blacklistToken(token) with the default expiry
blacklistToken(token) ==
    /\ tokenBlacklist' = tokenBlacklist \cup {token}
    /\ tokenExpiryMap' = (token :> now + BlacklistDays * MinutesPerDay) @@ tokenExpiryMap

isTokenBlacklisted(token) == token \in tokenBlacklist

\* POST /api/admin/logout
AdminLogout(token) ==
    IF token = NoToken \/ token.role # "admin"
    THEN /\ resp' = [ op |-> "admin-logout", token |-> token, status |-> 401 ]
         /\ UNCHANGED <<tokenBlacklist, tokenExpiryMap>>
    ELSE /\ blacklistToken(token)
         /\ resp' = [ op |-> "admin-logout", token |-> token, status |-> 200, success |-> TRUE ]

\* requireAdmin(request) of lib/auth.ts: the payload, or the Error it throws
requireAdmin(token) ==
    IF token = NoToken THEN [ threw |-> "No authorization token provided" ]
    ELSE IF token.role = "none" THEN [ threw |-> "Invalid or expired token" ]
    ELSE IF token.role # "admin" THEN [ threw |-> "Admin access required" ]
    ELSE [ payload |-> token ]

\* GET /api/admin/support (list all tickets): requireAdmin inside the
\* handler's try block, whose catch answers 500
AdminListTickets(token) ==
    IF Has(requireAdmin(token), "threw")
    THEN resp' = [ op |-> "admin-tickets", token |-> token, status |-> 500,
                   error |-> "Internal server error" ]
    ELSE resp' = [ op |-> "admin-tickets", token |-> token, status |-> 200,
                   tickets |-> Rows(tickets) ]

MaxDays == 8

\* Time passes, a day at a time, up to a number of days
TickUpTo(days) ==
    /\ now < days * MinutesPerDay
    /\ now' = now + MinutesPerDay
    /\ UNCHANGED <<crmVars, payVars, memVars, resp>>

Tick == TickUpTo(MaxDays)

SessionTokens == { AdminToken("a1"), AdminToken("a2"), OwnerToken("o1"), BadToken, NoToken }

SessionAdminRequests ==
    { RequestAt(token, 1, body) :
        token \in SessionTokens \ {NoToken},
        body \in { [ approvalStatus |-> "approved", isVerified |-> TRUE ],
                   [ approvalStatus |-> "rejected" ] } }

PostAdminLogout ==
    \E token \in SessionTokens :
        /\ AdminLogout(token)
        /\ UNCHANGED <<now, crmVars, payVars, rateLimitStore, rateLimitLog>>

GetAdminTickets ==
    \E token \in SessionTokens :
        /\ AdminListTickets(token)
        /\ UNCHANGED <<now, crmVars, payVars, memVars>>

PutAdminStationSession == PutAdminStationOf(SessionAdminRequests)

InitSession ==
    /\ now = 0
    /\ stations = (1 :> RegisterStationRow(1, "o1", StationBody @@ [ fuelTypes |-> <<"C","N","G">> ]))
    /\ owners = ("o1" :> FirstOwner)
    /\ tickets = <<>>
    /\ replies = {}
    /\ activityLogs = {}
    /\ notifications = {}
    /\ NoPay
    /\ NoMem
    /\ resp = NoResp

NextSession ==
    \/ PostAdminLogout
    \/ GetAdminTickets
    \/ PutAdminStationSession
    \/ CleanupBlacklist
    \/ Tick

SpecSession == InitSession /\ [][NextSession]_vars

----------------------------------------------------------------------------
(* lib/subscription-activation.ts: activateSubscription, one step per      *)
(* awaited database call, so that calls of concurrent requests interleave  *)

PlanIds == {"basic", "standard", "premium", "trial"}

\* planDetails[planId].duration, in days
PlanDuration(planId) == IF planId = "trial" THEN 7 ELSE 30

\* The two callers of activateSubscription: the Razorpay webhook and the
\* payment verification route, each running one call at a time here
Procs == {"webhook", "verify"}

Idle == [ pc |-> "idle" ]

\* Rows of ActivityLog and Notification written by an activation; the id is
\* the row's primary key, so that two equal rows are two rows
PaymentLogRow(id, ownerId, orderId) ==
    [ id |-> id, ownerId |-> ownerId, action |-> "subscription_purchased", orderId |-> orderId ]
PaymentNotificationRow(id, ownerId) ==
    [ id |-> id, ownerId |-> ownerId, title |-> "Subscription Activated" ]

\* What a finished call returned, kept as the last response
ActivationResult(frame, success, detail) ==
    [ op |-> "activateSubscription", ownerId |-> frame.ownerId, planId |-> frame.planId,
      orderId |-> frame.orderId, success |-> success, detail |-> detail ]

\* The idempotency check left out
AlreadyProcessedNever(existingPayment) == FALSE

\* existingPayment.status === 'success'
AlreadyProcessed(existingPayment) == existingPayment.status = "success"

(* What the callers answer when the function returns                      *)

\* The results of activateSubscription that come from its catch block
Thrown(detail) == detail \in {"database error", "Record to update not found"}

\* A response of the webhook; caught says that a catch block produced it
\* or the result it reports
WebhookAnswer(caller, status, received, error, message, caught) ==
    [ op |-> "webhook", caller |-> caller, status |-> status, received |-> received,
      error |-> error, message |-> message, caught |-> caught ]

\* The webhook's catch block: a rejection answered like a failure
WebhookCaughtAsError(caller, message) ==
    WebhookAnswer(caller, 500, FALSE, message, Null, TRUE)

\* The webhook's catch block: { received: true, error }, status 200
WebhookCaught(caller, message) ==
    WebhookAnswer(caller, 200, TRUE, message, Null, TRUE)

\* The webhook answering a failed activation as the verify route does
WebhookReturnFailing(frame, success, detail) ==
    IF ~success
    THEN WebhookAnswer(frame.caller, 500, FALSE, detail, Null, Thrown(detail))
    ELSE WebhookAnswer(frame.caller, 200, TRUE, Null, "Subscription activated", FALSE)
           @@ [ owner |-> detail ]

\* The webhook after activateSubscription returned
WebhookReturn(frame, success, detail) ==
    IF ~success
    THEN WebhookAnswer(frame.caller, 200, TRUE, detail, Null, Thrown(detail))
    ELSE WebhookAnswer(frame.caller, 200, TRUE, Null, "Subscription activated", FALSE)
           @@ [ owner |-> detail ]

\* The result of the verify route after activateSubscription returned
VerifyReturn(frame, success, detail) ==
    [ op |-> "verify", caller |-> frame.caller,
      status |-> IF success THEN 200 ELSE 500,
      success |-> success, detail |-> detail, caught |-> ~success /\ Thrown(detail) ]

\* What the caller makes of the function's result: the route that made the
\* call answers its request; called on its own, the result is what is left
Return(frame, success, detail) ==
    CASE frame.caller.route = "webhook" -> WebhookReturn(frame, success, detail)
      [] frame.caller.route = "verify" -> VerifyReturn(frame, success, detail)
      [] OTHER -> ActivationResult(frame, success, detail)

(* The steps of a call; the frame keeps the caller's request               *)

\* The call begins: the plan is validated before the first await
BeginActivation(p, caller, ownerId, planId, orderId, paymentId) ==
    LET frame == [ pc |-> "find", caller |-> caller, ownerId |-> ownerId, planId |-> planId,
                   orderId |-> orderId, paymentId |-> paymentId ]
    IN IF planId \notin PlanIds
       THEN /\ resp' = Return(frame, FALSE, "Invalid plan")
            /\ calls' = [ calls EXCEPT ![p] = Idle ]
       ELSE /\ calls' = [ calls EXCEPT ![p] = frame ]
            /\ UNCHANGED resp

\* await prisma.paymentHistory.findUnique({ where: { razorpayOrderId } })
FindPayment(p) ==
    LET frame == calls[p]
    IN /\ frame.pc = "find"
       /\ IF frame.orderId \notin DOMAIN payments
          THEN /\ resp' = Return(frame, FALSE, "Payment record not found")
               /\ calls' = [ calls EXCEPT ![p] = Idle ]
          ELSE /\ calls' = [ calls EXCEPT ![p] =
                               [ frame EXCEPT !.pc = IF AlreadyProcessed(payments[frame.orderId])
                                                     THEN "readOwner" ELSE "txn" ]
                                 @@ [ existingPayment |-> payments[frame.orderId] ] ]
               /\ UNCHANGED resp
       /\ UNCHANGED <<now, crmVars, payments, memVars>>

\* Payment already processed: read the owner and return the subscription
ReadOwner(p) ==
    LET frame == calls[p]
    IN /\ frame.pc = "readOwner"
       /\ resp' = Return(frame, TRUE,
                     IF frame.ownerId \in DOMAIN owners
                     THEN [ subscriptionType |-> owners[frame.ownerId].subscriptionType,
                            subscriptionEndsAt |-> owners[frame.ownerId].subscriptionEndsAt ]
                     ELSE [ subscriptionType |-> Undefined, subscriptionEndsAt |-> NullDate ])
       /\ calls' = [ calls EXCEPT ![p] = Idle ]
       /\ UNCHANGED <<now, crmVars, payments, memVars>>

\* prisma.$transaction([stationOwner.update, paymentHistory.update]); the
\* update of an owner that does not exist rejects and nothing is written
Transaction(p) ==
    LET frame == calls[p]
        expiryDate == now + PlanDuration(frame.planId) * MinutesPerDay
    IN /\ frame.pc = "txn"
       /\ IF frame.ownerId \notin DOMAIN owners
          THEN /\ resp' = Return(frame, FALSE, "Record to update not found")
               /\ calls' = [ calls EXCEPT ![p] = Idle ]
               /\ UNCHANGED <<owners, payments>>
          ELSE /\ owners' = [ owners EXCEPT ![frame.ownerId] =
                                UpdateRow(@, [ subscriptionType |-> frame.planId,
                                               subscriptionEndsAt |-> expiryDate ]) ]
               /\ payments' = [ payments EXCEPT ![frame.orderId] =
                                  UpdateRow(@, [ razorpayPaymentId |-> frame.paymentId,
                                                 status |-> "success",
                                                 subscriptionStartsAt |-> now,
                                                 subscriptionEndsAt |-> expiryDate ]) ]
               /\ calls' = [ calls EXCEPT ![p] =
                               [ frame EXCEPT !.pc = "log" ]
                                 @@ [ owner |-> [ subscriptionType |-> frame.planId,
                                                  subscriptionEndsAt |-> expiryDate ] ] ]
               /\ UNCHANGED resp
       /\ UNCHANGED <<now, stations, tickets, replies, activityLogs, notifications, memVars>>

\* await prisma.activityLog.create(...)
CreateLog(p) ==
    LET frame == calls[p]
    IN /\ frame.pc = "log"
       /\ activityLogs' = activityLogs \cup
            { PaymentLogRow(Cardinality(activityLogs) + 1, frame.ownerId, frame.orderId) }
       /\ calls' = [ calls EXCEPT ![p] = [ frame EXCEPT !.pc = "notify" ] ]
       /\ UNCHANGED <<now, stations, owners, tickets, replies, notifications, payments,
                      memVars, resp>>

\* await prisma.notification.create(...), then return { success: true, owner }
CreateNotification(p) ==
    LET frame == calls[p]
    IN /\ frame.pc = "notify"
       /\ notifications' = notifications \cup
            { PaymentNotificationRow(Cardinality(notifications) + 1, frame.ownerId) }
       /\ resp' = Return(frame, TRUE, frame.owner)
       /\ calls' = [ calls EXCEPT ![p] = Idle ]
       /\ UNCHANGED <<now, stations, owners, tickets, replies, activityLogs, payments, memVars>>

\* An awaited database call rejects: the catch block returns the failure
DatabaseError(p) ==
    LET frame == calls[p]
    IN /\ frame.pc \in {"find", "readOwner", "txn", "log", "notify"}
       /\ resp' = Return(frame, FALSE, "database error")
       /\ calls' = [ calls EXCEPT ![p] = Idle ]
       /\ UNCHANGED <<now, crmVars, payments, memVars>>

\* The function called on its own: the result is what it returns
StartActivation(p, ownerId, planId, orderId, paymentId) ==
    /\ calls[p] = Idle
    /\ BeginActivation(p, [ route |-> "function" ], ownerId, planId, orderId, paymentId)
    /\ UNCHANGED <<now, crmVars, payments, memVars>>

\* An order created for owner o1 and not yet paid
PendingPayment ==
    [ razorpayOrderId |-> "order_1", ownerId |-> "o1", planId |-> "trial", status |-> "pending",
      razorpayPaymentId |-> Null, subscriptionStartsAt |-> NullDate,
      subscriptionEndsAt |-> NullDate ]

InitPay ==
    /\ now = 0
    /\ stations = <<>>
    /\ owners = ("o1" :> [ FirstOwner EXCEPT !.subscriptionType = Null,
                                             !.subscriptionEndsAt = NullDate ])
    /\ tickets = <<>>
    /\ replies = {}
    /\ activityLogs = {}
    /\ notifications = {}
    /\ payments = ("order_1" :> PendingPayment)
    /\ calls = [ p \in Procs |-> Idle ]
    /\ NoMem
    /\ resp = NoResp

MaxPayDays == 1

ActivationArgs ==
    { [ planId |-> "trial", orderId |-> "order_1" ],
      [ planId |-> "basic", orderId |-> "order_1" ],
      [ planId |-> "gold", orderId |-> "order_1" ],
      [ planId |-> "trial", orderId |-> "order_0" ] }

Activate ==
    \E p \in Procs, args \in ActivationArgs :
        StartActivation(p, "o1", args.planId, args.orderId, "pay_1")

TickPay == TickUpTo(MaxPayDays)

NextPay ==
    \/ Activate
    \/ \E p \in Procs : FindPayment(p)
    \/ \E p \in Procs : ReadOwner(p)
    \/ \E p \in Procs : Transaction(p)
    \/ \E p \in Procs : CreateLog(p)
    \/ \E p \in Procs : CreateNotification(p)
    \/ \E p \in Procs : DatabaseError(p)
    \/ TickPay

SpecPay == InitPay /\ [][NextPay]_vars

----------------------------------------------------------------------------
(* Two owners, each with a station and a ticket, and the owner routes      *)

\* Owner o2 signed up and never bought a plan
SecondOwner ==
    [ FirstOwner EXCEPT !.id = "o2", !.email = <<"e","2">>,
                        !.subscriptionType = Null, !.subscriptionEndsAt = NullDate ]

TicketRow(id, ownerId, status) == [ id |-> id, ownerId |-> ownerId, status |-> status ]

InitOwner ==
    /\ now = 0
    /\ stations = (1 :> RegisterStationRow(1, "o1", StationBody @@ [ fuelTypes |-> <<"C","N","G">> ]))
               @@ (2 :> SignupStationRow(2, "o2", SignupStation))
    /\ owners = ("o1" :> FirstOwner) @@ ("o2" :> SecondOwner)
    /\ tickets = (1 :> TicketRow(1, "o1", "open")) @@ (2 :> TicketRow(2, "o2", "resolved"))
    /\ replies = {}
    /\ activityLogs = {}
    /\ notifications = {}
    /\ NoPay
    /\ NoMem
    /\ resp = NoResp

OwnerTokens == { OwnerToken("o1"), OwnerToken("o2") }

OwnerUpdateRequests ==
    { RequestAt(token, id, [ name |-> <<"A","X">> ]) : token \in OwnerTokens, id \in {1, 2} }

OwnerCngRequests ==
    { Request(token, body) :
        token \in OwnerTokens,
        body \in { [ stationId |-> 1, cngAvailable |-> FALSE ],
                   [ stationId |-> 2, cngAvailable |-> FALSE ],
                   [ stationId |-> 2, cngQuantityKg |-> -5 ],
                   [ cngQuantityKg |-> 0 ] } }

OwnerReplyRequests ==
    { RequestAt(token, id, body) :
        token \in OwnerTokens, id \in {1, 2},
        body \in { [ message |-> <<"h","i">> ], [ subject |-> <<"h","i">> ] } }

OwnerProfileRequests ==
    { Request(token,
              [ address |-> <<"N","R","O","A","D">>, city |-> <<"M","U","M">>,
                state |-> "Maharashtra", lat |-> 19060, lng |-> 72830 ]) :
        token \in OwnerTokens }

PutStationOwner == PutStationOf(OwnerUpdateRequests)
PostProfileOwner == PostProfileOf(OwnerProfileRequests)
PutCngStatusOf(requests) == \E r \in requests : UpdateCngStatus(r.token, r.body) /\ CrmFrame
PutCngStatus == PutCngStatusOf(OwnerCngRequests)
PutTicketReply ==
    \E r \in OwnerReplyRequests : ReplyToTicket(r.token, r.id, r.body) /\ CrmFrame

NextOwner ==
    \/ PutStationOwner
    \/ PostProfileOwner
    \/ PutCngStatus
    \/ PutTicketReply

SpecOwner == InitOwner /\ [][NextOwner]_vars

----------------------------------------------------------------------------
(* The subscription gate as time passes                                    *)

MaxHalfDays == 12

\* Half a day passes
TickHalfDay ==
    /\ 2 * now < MaxHalfDays * MinutesPerDay
    /\ now' = now + MinutesPerDay \div 2
    /\ UNCHANGED <<crmVars, payVars, memVars, resp>>

\* Owner o1's plan ends a day from the start; owner o2 has none
InitGate ==
    /\ now = 0
    /\ stations = (1 :> RegisterStationRow(1, "o1", StationBody @@ [ fuelTypes |-> <<"C","N","G">> ]))
    /\ owners = ("o1" :> [ FirstOwner EXCEPT !.subscriptionEndsAt = MinutesPerDay ])
             @@ ("o2" :> SecondOwner)
    /\ tickets = <<>>
    /\ replies = {}
    /\ activityLogs = {}
    /\ notifications = {}
    /\ NoPay
    /\ NoMem
    /\ resp = NoResp

GateCngRequests ==
    { Request(token, body) :
        token \in OwnerTokens \cup { BadToken },
        body \in { [ stationId |-> 1, cngAvailable |-> FALSE ], [ cngQuantityKg |-> 5 ] } }

PutCngStatusGate == PutCngStatusOf(GateCngRequests)

NextGate ==
    \/ PutCngStatusGate
    \/ TickHalfDay

SpecGate == InitGate /\ [][NextGate]_vars

----------------------------------------------------------------------------
(* Claims about the suggestion endpoint                                    *)

IsSuggestOk == resp.op = "suggest-pumps" /\ resp.status = 200

\* C1: every call of calculateStationScore returns exactly
\* max(0, 100 - 2*d + 20*[isPartner] + 5*rating + 10*[userState set and equal
\* to station.state]), and so never a negative score.
C1_ScoreFormula ==
    IsSuggestOk =>
        \A c \in resp.scoreCalls :
            /\ c.result >= 0
            /\ c.result =
                 Max(0, 100000 - 2 * c.distance
                        + (IF c.station.isPartner THEN 20000 ELSE 0)
                        + 500 * c.station.rating
                        + (IF c.userState # Undefined /\ c.station.state = c.userState
                           THEN 10000 ELSE 0))

\* A request that scored a far, unrated station (raw sum below zero, clamped
\* to 0) with the same-state bonus, and a partner station above zero.
C1_Witness ==
    /\ IsSuggestOk
    /\ \E c \in resp.scoreCalls :
          /\ c.result = 0
          /\ 100000 - 2 * c.distance + 500 * c.station.rating + 10000 < 0
          /\ c.userState = c.station.state
    /\ \E c \in resp.scoreCalls : c.station.isPartner /\ c.result > 120000

\* C2: a request that does not specify sortBy gets its suggestions ordered by
\* non-increasing score.
C2_DefaultSortedByScore ==
    (IsSuggestOk /\ ~Has(resp.body, "sortBy")) =>
        \A i, j \in DOMAIN resp.suggestions :
            i < j => resp.suggestions[i].score >= resp.suggestions[j].score

\* C10: every suggestion returned lies within radiusKm (default 20) of the
\* query point by the Haversine distance.
C10_WithinRadius ==
    IsSuggestOk =>
        \A i \in DOMAIN resp.suggestions :
            calculateHaversineDistance(resp.body.lat, resp.body.lng,
                                       resp.suggestions[i].station.lat,
                                       resp.suggestions[i].station.lng)
              <= (IF Has(resp.body, "radiusKm") THEN resp.body.radiusKm ELSE 20) * 1000

\* A response with a suggestion, for which the bounding-box query also found
\* a station farther than the radius.
C10_Witness ==
    /\ IsSuggestOk
    /\ Len(resp.suggestions) > 0
    /\ \E id \in DOMAIN stations :
          /\ MatchesWhere(stations[id], resp.query)
          /\ calculateHaversineDistance(resp.body.lat, resp.body.lng,
                                        stations[id].lat, stations[id].lng)
               > RadiusOf(resp.body) * 1000

----------------------------------------------------------------------------
(* Claims about the approval workflow                                      *)

\* The stations a public response lists, as rows of the Station table
PublicResults ==
    IF resp.op = "list-stations" /\ resp.status = 200
    THEN { resp.stations[i] : i \in DOMAIN resp.stations }
    ELSE IF resp.op = "search" /\ resp.status = 200
    THEN { stations[resp.stations[i].id] : i \in DOMAIN resp.stations }
    ELSE IF resp.op = "suggest-pumps" /\ resp.status = 200
    THEN { resp.suggestions[i].station : i \in DOMAIN resp.suggestions }
    ELSE {}

\* C3: no public station query (GET /api/stations, POST or GET
\* /api/stations/search, POST /api/suggest-pumps) returns a station whose
\* approvalStatus is 'pending' or 'rejected'.
C3_PublicOnlyApproved ==
    \A st \in PublicResults : st.approvalStatus \notin {"pending", "rejected"}

OwnerOps == {"signup", "profile", "register-station", "create-station", "update-station"}

\* C4: a station created through an owner path is 'pending' and unverified
\* when created, and a step that makes a station 'approved' or verified is
\* an admin's update; no owner request does it.
C4_OnlyAdminApproves ==
    [][ \A id \in DOMAIN stations' :
          LET wasApproved == id \in DOMAIN stations /\ stations[id].approvalStatus = "approved"
              wasVerified == id \in DOMAIN stations /\ stations[id].isVerified
          IN /\ (id \notin DOMAIN stations /\ resp'.op \in OwnerOps) =>
                   /\ stations'[id].approvalStatus = "pending"
                   /\ stations'[id].isVerified = FALSE
             /\ (\/ stations'[id].approvalStatus = "approved" /\ ~wasApproved
                 \/ stations'[id].isVerified /\ ~wasVerified) =>
                   /\ resp'.op = "admin-update-station"
                   /\ resp'.token.role = "admin" ]_vars

\* An owner has edited their station with a body that asks for approval,
\* and the station is still pending and unverified
C4_Witness ==
    /\ resp.op = "update-station"
    /\ resp.status = 200
    /\ Has(resp.body, "approvalStatus")
    /\ stations[resp.stationId].name = resp.body.name
    /\ stations[resp.stationId].approvalStatus = "pending"
    /\ stations[resp.stationId].isVerified = FALSE

----------------------------------------------------------------------------
(* Claims about admin sessions                                             *)

\* C5: after a successful POST /api/admin/logout with token T, a request
\* that presents T to an admin-protected endpoint is rejected as
\* unauthorized.
C5_LoggedOutTokenRejected ==
    (resp.op \in {"admin-update-station", "admin-tickets"} /\ isTokenBlacklisted(resp.token))
        => resp.status \in {401, 403}

----------------------------------------------------------------------------
(* Claims about subscription activation                                    *)

PaymentTables == <<owners, payments, activityLogs, notifications>>

\* The call of process p found its payment record with status 'success'
FoundProcessed(p) ==
    /\ Has(calls[p], "existingPayment")
    /\ calls[p].existingPayment.status = "success"

----------------------------------------------------------------------------
(* lib/rate-limit.ts and the admin login it protects.  Time is in minutes. *)

\* rateLimitConfigs: windowMs is 15 * 60 * 1000 ms, held here in minutes
rateLimitConfigs == [auth |-> [windowMs |-> 15, maxRequests |-> 5]]

Unknown == <<"u", "n", "k", "n", "o", "w", "n">>

\* forwarded.split(',')[0]: the text before the first comma
FirstOfList(s) ==
    IF \E i \in 1..Len(s) : s[i] = ","
    THEN SubSeq(s, 1, (CHOOSE i \in 1..Len(s) : s[i] = "," /\ \A j \in 1..(i - 1) : s[j] # ",") - 1)
    ELSE s

\* `${ip}-${userAgent}` from x-forwarded-for, x-real-ip and user-agent
ClientIdentifier(headers) ==
    LET ip == IF Truthy(headers, "x-forwarded-for")
              THEN FirstOfList(headers["x-forwarded-for"])
              ELSE IF Truthy(headers, "x-real-ip") THEN headers["x-real-ip"] ELSE Unknown
        userAgent == IF Truthy(headers, "user-agent") THEN headers["user-agent"] ELSE Unknown
    IN ip \o <<"-">> \o userAgent

\* A limit that lets one call too many through
LimitExceeded(record, config) == record.count > config.maxRequests

\* record.count >= config.maxRequests
LimitReached(record, config) == record.count >= config.maxRequests

\* rateLimit(request, config): the store afterwards, the response (429) or
\* null (0), and the window the call was counted in
rateLimit(headers, config) ==
    LET identifier == ClientIdentifier(headers)
        fresh == identifier \notin DOMAIN rateLimitStore
                    \/ rateLimitStore[identifier].resetTime < now
    IN IF fresh
       THEN [store |-> [k \in DOMAIN rateLimitStore \cup {identifier} |->
                           IF k = identifier
                           THEN [count |-> 1, resetTime |-> now + config.windowMs]
                           ELSE rateLimitStore[k]],
             status |-> 0, identifier |-> identifier,
             resetTime |-> now + config.windowMs]
       ELSE IF LimitReached(rateLimitStore[identifier], config)
       THEN [store |-> rateLimitStore, status |-> 429, identifier |-> identifier,
             resetTime |-> rateLimitStore[identifier].resetTime]
       ELSE [store |-> [rateLimitStore EXCEPT ![identifier].count = @ + 1],
             status |-> 0, identifier |-> identifier,
             resetTime |-> rateLimitStore[identifier].resetTime]

\* The hourly sweep of the store
CleanupRateLimit ==
    /\ rateLimitStore' = [k \in {k \in DOMAIN rateLimitStore : ~(rateLimitStore[k].resetTime < now)} |->
                             rateLimitStore[k]]
    /\ UNCHANGED <<now, crmVars, payVars, tokenBlacklist, tokenExpiryMap, rateLimitLog, resp>>

\* The admin table: one administrator; the password stands for its hash
Admins ==
    {[id |-> "a1", email |-> <<"a", "@", "x">>,
      password |-> <<"s", "e", "c", "r", "e", "t">>]}

\* loginSchema: an e-mail address and a password of at least 6 characters
loginSchema(body) ==
    /\ Has(body, "email") /\ Contains(body.email, <<"@">>)
    /\ Has(body, "password") /\ Len(body.password) >= MinPasswordLength

\* POST /api/admin/login
AdminLogin(headers, body) ==
    LET limited == rateLimit(headers, rateLimitConfigs.auth)
        email == toLowerCase(body.email)
        found == {a \in Admins : a.email = email}
        status == IF limited.status # 0 THEN 429
                  ELSE IF ~loginSchema(body) THEN 400
                  ELSE IF found = {} THEN 401
                  ELSE IF (CHOOSE a \in found : TRUE).password # body.password THEN 401
                  ELSE 200
    IN [store |-> limited.store,
        entry |-> [identifier |-> limited.identifier, at |-> now,
                   resetTime |-> limited.resetTime, admitted |-> limited.status = 0],
        resp |-> [op |-> "admin-login", status |-> status,
                  identifier |-> limited.identifier,
                  token |-> IF status = 200 THEN AdminToken("a1") ELSE BadToken]]

(* The login endpoint under load from two clients                          *)

MaxCalls == 6
MaxTicks == 4

\* The clock moves a third of a window at a time
TickStep == rateLimitConfigs.auth.windowMs \div 3

LoginHeaders ==
    {[i \in {"x-forwarded-for", "user-agent"} |->
         IF i = "user-agent" THEN <<"F">> ELSE <<"1", ",", "9">>],
     [i \in {"x-real-ip", "user-agent"} |->
         IF i = "user-agent" THEN <<"F">> ELSE <<"1">>],
     [i \in {"user-agent"} |-> <<"F">>]}

LoginBodies ==
    {[email |-> <<"A", "@", "x">>, password |-> <<"s", "e", "c", "r", "e", "t">>],
     [email |-> <<"a", "@", "x">>, password |-> <<"g", "u", "e", "s", "s", "1">>]}

InitRate ==
    /\ now = 0
    /\ stations = <<>>
    /\ NoCrm
    /\ NoPay
    /\ NoMem
    /\ resp = NoResp

PostAdminLogin ==
    \E headers \in LoginHeaders, body \in LoginBodies :
        LET out == AdminLogin(headers, body)
        IN /\ Len(rateLimitLog) < MaxCalls
           /\ rateLimitStore' = out.store
           /\ rateLimitLog' = Append(rateLimitLog, out.entry)
           /\ resp' = out.resp
           /\ UNCHANGED <<now, crmVars, payVars, tokenBlacklist, tokenExpiryMap>>

TickRate ==
    /\ now < MaxTicks * TickStep
    /\ now' = now + TickStep
    /\ UNCHANGED <<crmVars, payVars, memVars, resp>>

NextRate ==
    \/ PostAdminLogin
    \/ CleanupRateLimit
    \/ TickRate

SpecRate == InitRate /\ [][NextRate]_vars

----------------------------------------------------------------------------
(* Claims about the subscription gate                                      *)

\* C7: for a request with a valid owner token, requireActiveSubscription
\* answers 403 when the owner's subscriptionEndsAt lies more than
\* GRACE_PERIOD_DAYS (72 hours) before the current time, and lets the
\* request through when the subscription has not expired or expired at
\* most 3 days ago.
C7_GraceIsThreeDays ==
    (/\ resp.op = "cng-status"
     /\ resp.token.role = "owner"
     /\ owners[resp.token.id].subscriptionType # Null
     /\ owners[resp.token.id].subscriptionEndsAt # NullDate) =>
        LET expiredFor == resp.at - owners[resp.token.id].subscriptionEndsAt
        IN IF expiredFor > GRACE_PERIOD_DAYS * MinutesPerDay
           THEN resp.status = 403
           ELSE resp.status \notin {401, 403}

----------------------------------------------------------------------------
(* Claims about ownership                                                  *)

\* The request answered by r names a station or ticket of another owner
NamesAnothers(r) ==
    \/ /\ r.op = "update-station"
       /\ r.stationId \in DOMAIN stations
       /\ stations[r.stationId].ownerId # r.token.id
    \/ /\ r.op = "cng-status"
       /\ TruthyNum(r.body, "stationId")
       /\ r.body.stationId \in DOMAIN stations
       /\ stations[r.body.stationId].ownerId # r.token.id
    \/ /\ r.op = "ticket-reply"
       /\ r.ticketId \in DOMAIN tickets
       /\ tickets[r.ticketId].ownerId # r.token.id

\* The step leaves the stations and tickets of everyone but the requester
\* as they were and adds replies to the requester's tickets only
OthersUntouched(r) ==
    /\ DOMAIN stations' = DOMAIN stations
    /\ \A id \in DOMAIN stations :
          stations[id].ownerId # r.token.id => stations'[id] = stations[id]
    /\ DOMAIN tickets' = DOMAIN tickets
    /\ \A id \in DOMAIN tickets :
          tickets[id].ownerId # r.token.id => tickets'[id] = tickets[id]
    /\ \A reply \in replies' \ replies : tickets[reply.ticketId].ownerId = r.token.id

\* C9 as stated: an owner's request never modifies another owner's station
\* or ticket, and a request naming one is answered 404.
C9_AnothersResourceIs404 ==
    [][ resp'.op # "none" =>
          /\ OthersUntouched(resp')
          /\ NamesAnothers(resp') => resp'.status = 404 ]_vars

\* C9, amended: an owner's request never modifies another owner's station
\* or ticket; a request naming one is refused: 403 by the CNG route when
\* the requester has no active subscription, 400 when the body is invalid
\* (CNG status) or has no message (ticket reply), and 404 otherwise.
C9_AnothersResourceRefused ==
    [][ resp'.op # "none" =>
          /\ OthersUntouched(resp')
          /\ NamesAnothers(resp') =>
                resp'.status =
                    IF resp'.op = "cng-status" /\ requireActiveSubscription(resp'.token) # 0
                    THEN 403
                    ELSE IF resp'.op = "cng-status" /\ ~updateStatusSchema(resp'.body)
                    THEN 400
                    ELSE IF resp'.op = "ticket-reply" /\ ~Truthy(resp'.body, "message")
                    THEN 400
                    ELSE 404 ]_vars

\* Owner o1 has set the stock of all their stations, then named o2's
\* station in a CNG update: answered 404, and o2's station was never touched
C9_Witness ==
    /\ resp.op = "cng-status"
    /\ resp.token = OwnerToken("o1")
    /\ Has(resp.body, "stationId")
    /\ resp.body.stationId = 2
    /\ resp.status = 404
    /\ stations[1].cngQuantityKg = 0
    /\ stations[1].cngAvailable = FALSE
    /\ stations[2].cngAvailable = TRUE
    /\ stations[2].cngUpdatedAt = NullDate

----------------------------------------------------------------------------
(* Claims about the rate limiter                                           *)

\* The calls of one client counted in the window that ends at resetTime,
\* among the first n calls of the history
InWindow(identifier, resetTime, n) ==
    {i \in 1..n : /\ rateLimitLog[i].identifier = identifier
                  /\ rateLimitLog[i].resetTime = resetTime}

Admitted(identifier, resetTime, n) ==
    {i \in InWindow(identifier, resetTime, n) : rateLimitLog[i].admitted}

\* C8: for a fixed client identifier and configuration, between the
\* creation of a window record and its resetTime, rateLimit admits at most
\* maxRequests calls and answers 429 to every further call in that window.
C8_WindowAdmitsAtMostMax ==
    \A i \in 1..Len(rateLimitLog) :
        LET e == rateLimitLog[i]
            before == Admitted(e.identifier, e.resetTime, i - 1)
        IN /\ e.resetTime - rateLimitConfigs.auth.windowMs <= e.at
           /\ e.at <= e.resetTime
           /\ Cardinality(Admitted(e.identifier, e.resetTime, i))
                 <= rateLimitConfigs.auth.maxRequests
           /\ e.admitted <=> Cardinality(before) < rateLimitConfigs.auth.maxRequests

\* A client was admitted maxRequests times in one window and then refused,
\* the last time at the very minute the window ends
C8_Witness ==
    /\ Len(rateLimitLog) = MaxCalls
    /\ resp.op = "admin-login"
    /\ resp.status = 429
    /\ LET e == rateLimitLog[Len(rateLimitLog)]
       IN /\ ~e.admitted
          /\ e.at = e.resetTime
          /\ Cardinality(Admitted(e.identifier, e.resetTime, Len(rateLimitLog)))
                = rateLimitConfigs.auth.maxRequests

----------------------------------------------------------------------------
(* The suggestion endpoint over a table larger than a page                 *)

MaxPageStations == 32

\* The i-th row of a table of stations spread over a few kilometres around
\* the query point, with varied names, ratings, partner flags and fuels
PageStation(i) ==
    [ id |-> i,
      name |-> <<Upper[(i % 26) + 1], Upper[((i * 7) % 26) + 1]>>,
      address |-> <<"R", "D">>, city |-> <<"M","U","M">>, state |-> "Maharashtra",
      lat |-> 19076 + ((i * 7) % 41) - 20,
      lng |-> 72877 + ((i * 11) % 41) - 20,
      fuelTypes |-> IF i % 8 = 0 THEN <<"P","E","T">> ELSE <<"C","N","G">>,
      isPartner |-> (i % 3 = 0), rating |-> (i * 13) % 51,
      approvalStatus |-> "approved", isVerified |-> TRUE, ownerId |-> Null,
      cngAvailable |-> TRUE, cngQuantityKg |-> NullNumber, cngUpdatedAt |-> NullDate ]

PageBodies ==
    { SuggestBase,
      SuggestBase @@ [ sortBy |-> "rating" ],
      SuggestBase @@ [ sortBy |-> "name" ],
      SuggestBase @@ [ radiusKm |-> 1 ],
      SuggestBase @@ [ radiusKm |-> 2, sortBy |-> "rating" ],
      SuggestBase @@ [ fuelType |-> <<"C","N","G">>, sortBy |-> "name" ],
      [ lat |-> 19976, lng |-> 72877 ] }

InitPage ==
    /\ now = 0
    /\ NoCrm
    /\ NoPay
    /\ NoMem
    /\ \E n \in 0..MaxPageStations : stations = [ i \in 1..n |-> PageStation(i) ]
    /\ resp = NoResp

PostSuggestPumpsPage == PostSuggestPumpsOf(PageBodies)

NextPage == PostSuggestPumpsPage

SpecPage == InitPage /\ [][NextPage]_vars

(* Claims about the page of suggestions                                    *)

\* The stations of the table that the last request's query matches and that
\* lie within its radius
InRadiusIds ==
    { id \in DOMAIN stations :
        /\ MatchesWhere(stations[id], resp.query)
        /\ calculateHaversineDistance(resp.body.lat, resp.body.lng,
                                      stations[id].lat, stations[id].lng)
             <= RadiusOf(resp.body) * 1000 }

\* Station a does not come after station b in the order the request asked for
NotAfter(a, b) ==
    CASE SortByOf(resp.body) = "distance" ->
            toFixed2(calculateHaversineDistance(resp.body.lat, resp.body.lng, a.lat, a.lng))
              <= toFixed2(calculateHaversineDistance(resp.body.lat, resp.body.lng, b.lat, b.lng))
      [] SortByOf(resp.body) = "rating" -> a.rating >= b.rating
      [] OTHER -> localeCompare(a.name, b.name) <= 0

\* C11 as stated: at most 30 suggestions are returned, and the response
\* field count equals the number of suggestions returned.
C11_ThirtyAndCount ==
    IsSuggestOk =>
        /\ Len(resp.suggestions) <= 30
        /\ Has(resp, "count")
        /\ resp.count = Len(resp.suggestions)

\* C11, amended: the suggestions are the first 30 entries of the sorted list
\* of in-radius stations (all of them when there are fewer), and count
\* equals their number; only the response to a query that found no
\* candidate at all carries an empty list and no count field.
C11_FirstPageOfSorted ==
    IsSuggestOk =>
        LET returned == { resp.suggestions[i].station.id : i \in DOMAIN resp.suggestions }
        IN /\ Len(resp.suggestions) <= 30
           /\ Len(resp.suggestions) = Min(30, Cardinality(InRadiusIds))
           /\ Cardinality(returned) = Len(resp.suggestions)
           /\ returned \subseteq InRadiusIds
           /\ \A i \in DOMAIN resp.suggestions :
                 resp.suggestions[i].station = stations[resp.suggestions[i].station.id]
           /\ \A i, j \in DOMAIN resp.suggestions :
                 i < j => NotAfter(resp.suggestions[i].station, resp.suggestions[j].station)
           /\ \A id \in InRadiusIds \ returned :
                 \A i \in DOMAIN resp.suggestions :
                     NotAfter(resp.suggestions[i].station, stations[id])
           /\ IF \E id \in DOMAIN stations : MatchesWhere(stations[id], resp.query)
              THEN Has(resp, "count") /\ resp.count = Len(resp.suggestions)
              ELSE ~Has(resp, "count") /\ resp.suggestions = <<>>

\* More than 30 stations were in the radius and a full page came back
C11_Witness ==
    /\ IsSuggestOk
    /\ Cardinality(InRadiusIds) > 30
    /\ Len(resp.suggestions) = 30
    /\ Has(resp, "count")
    /\ resp.count = 30

(* Claims about the validation of suggestion requests                      *)

\* A parsed body that the schema of POST /api/suggest-pumps rejects
FailsValidation(body) ==
    /\ ~Has(body, "malformed")
    /\ \/ ~Has(body, "lat")
       \/ ~Has(body, "lng")
       \/ Has(body, "radiusKm") /\ (body.radiusKm < 1 \/ body.radiusKm > 100)
       \/ Has(body, "sortBy") /\ body.sortBy \notin {"distance", "rating", "name"}
       \/ Has(body, "fuelType") /\ body.fuelType # <<"C","N","G">>

\* C12: a POST /api/suggest-pumps request whose body fails schema validation
\* is answered 400 with error 'Validation failed', and no station query is
\* issued to the database.
C12_InvalidBodyIs400 ==
    (resp.op = "suggest-pumps" /\ FailsValidation(resp.body)) =>
        /\ resp.status = 400
        /\ resp.error = "Validation failed"
        /\ ~resp.queried

\* A request with radiusKm 101 was refused over a populated table
C12_Witness ==
    /\ resp.op = "suggest-pumps"
    /\ Has(resp.body, "radiusKm")
    /\ resp.body.radiusKm = 101
    /\ resp.status = 400
    /\ ~resp.queried
    /\ \E id \in DOMAIN stations :
          stations[id].lat = 19060 /\ stations[id].approvalStatus = "approved"

----------------------------------------------------------------------------
(* Scoring a partner and a non-partner station at the same place           *)

\* Ratings, in tenths of a point, across the range 0..5
Ratings == {0, 8, 10, 40, 48, 50}

\* Places near the query point, across town, and so far that scores clamp
Places == { [lat |-> 19060, lng |-> 72830], [lat |-> 19246, lng |-> 73057],
            [lat |-> 19776, lng |-> 72877] }

ScoredStation(id, place, state, isPartner, rating) ==
    [ id |-> id, name |-> IF isPartner THEN <<"P","A">> ELSE <<"N","P">>,
      address |-> <<"R","D">>, city |-> <<"M","U","M">>, state |-> state,
      lat |-> place.lat, lng |-> place.lng, fuelTypes |-> <<"C","N","G">>,
      isPartner |-> isPartner, rating |-> rating,
      approvalStatus |-> "approved", isVerified |-> TRUE, ownerId |-> Null,
      cngAvailable |-> TRUE, cngQuantityKg |-> NullNumber, cngUpdatedAt |-> NullDate ]

ScoreBodies ==
    { SuggestBase @@ [ radiusKm |-> 100 ],
      SuggestBase @@ [ radiusKm |-> 100, plate |-> <<"M","H","1","2">> ],
      SuggestBase @@ [ radiusKm |-> 100, plate |-> <<"G","J","0","1">> ] }

InitScore ==
    /\ now = 0
    /\ NoCrm
    /\ NoPay
    /\ NoMem
    /\ \E place \in Places, state \in {"Maharashtra", "Gujarat"},
          partnerRating \in Ratings, otherRating \in Ratings :
          stations = <<ScoredStation(1, place, state, TRUE, partnerRating),
                       ScoredStation(2, place, "Maharashtra", FALSE, otherRating)>>
    /\ resp = NoResp

PostSuggestPumpsScore == PostSuggestPumpsOf(ScoreBodies)

NextScore == PostSuggestPumpsScore

SpecScore == InitScore /\ [][NextScore]_vars

(* Claims about the partner bonus                                          *)

\* Two score calls of one request: a partner and a non-partner station at
\* the same distance, both in the user's state or both not
PartnerPairs ==
    { pair \in resp.scoreCalls \X resp.scoreCalls :
        /\ pair[1].station.isPartner
        /\ ~pair[2].station.isPartner
        /\ pair[1].distance = pair[2].distance
        /\ (pair[1].userState # Undefined /\ pair[1].station.state = pair[1].userState)
             <=> (pair[2].userState # Undefined /\ pair[2].station.state = pair[2].userState) }

\* C13 as stated: at the same distance and with the same same-state status,
\* a partner station scores strictly higher than a non-partner station,
\* whatever their ratings in 0..5.
C13_PartnerAlwaysHigher ==
    IsSuggestOk => \A pair \in PartnerPairs : pair[1].result > pair[2].result

\* C13, amended: at the same distance and with the same same-state status,
\* a partner station scores strictly higher than a non-partner station
\* exactly when its rating is less than 4 points below the other's and its
\* own score is above zero.
C13_PartnerHigherWithinFourPoints ==
    IsSuggestOk =>
        \A pair \in PartnerPairs :
            pair[1].result > pair[2].result
               <=> /\ pair[2].station.rating - pair[1].station.rating < 40
                   /\ pair[1].result > 0

\* The partner rated 4.0 outscored the non-partner rated 4.8 at the same place
C13_Witness ==
    /\ IsSuggestOk
    /\ \E pair \in PartnerPairs :
          /\ pair[1].station.rating = 40
          /\ pair[2].station.rating = 48
          /\ pair[1].result > pair[2].result

(* Claims about the fuel-type filter                                       *)

\* C14: when fuelType is specified in a POST /api/suggest-pumps request, the
\* station query sent to the database carries the filter
\* fuelTypes: { has: fuelType }, membership of the fuel type in the
\* station's list of fuel types.
C14_FuelTypeFilterIsHas ==
    (IsSuggestOk /\ Has(resp.body, "fuelType")) =>
        /\ resp.queried
        /\ resp.query.fuelTypes = [op |-> "has", value |-> resp.body.fuelType]

----------------------------------------------------------------------------
(* The suggestion endpoint and the plates it is given                      *)

Plates ==
    { <<"M","H","1","2","A","B">>, <<"m","h"," ","1","2">>, <<"m","-","h","1","2">>,
      <<"g","j","-","0","1">>, <<"X","X","9">>, <<"M">>, <<"-">>, <<>>,
      <<"9","M","H">>, <<"d","l","1","c">>, <<"K","A">>, <<"b","h","2","2">>,
      <<"h",".","p",".","1">>, <<"O"," ","R">>, <<" ","t","n","0","7">> }

PlateBodies ==
    { SuggestBase, SuggestBase @@ [ radiusKm |-> 100 ] }
      \cup { SuggestBase @@ [ plate |-> p ] : p \in Plates }
      \cup { SuggestBase @@ [ plate |-> p, radiusKm |-> 100 ] : p \in Plates }

\* An empty table, or one station
InitPlate ==
    /\ now = 0
    /\ NoCrm
    /\ NoPay
    /\ NoMem
    /\ \/ stations = <<>>
       \/ \E row \in StationPool : stations = <<WithId(row, 1)>>
    /\ resp = NoResp

PostSuggestPumpsPlate == PostSuggestPumpsOf(PlateBodies)

NextPlate == PostSuggestPumpsPlate

SpecPlate == InitPlate /\ [][NextPlate]_vars

(* Claims about the detected region                                        *)

\* The state of the code formed by the first two letters or digits of the
\* plate, read without regard to case; Null without a plate or a known code
ExpectedRegion(body) ==
    IF ~Has(body, "plate") THEN Null
    ELSE LET alnum == SelectSeq(toUpperCase(body.plate),
                                LAMBDA c : c \in Range(Upper) \cup Range(Digits))
         IN IF Len(alnum) >= 2 /\ \E e \in stateMap : e[1] = <<alnum[1], alnum[2]>>
            THEN (CHOOSE e \in stateMap : e[1] = <<alnum[1], alnum[2]>>)[2]
            ELSE Null

\* C15 as stated: regionDetected in the response is the state mapped to the
\* first two characters of the cleaned plate, and null when no plate is
\* given or the code is unknown.
C15_RegionDetected ==
    IsSuggestOk =>
        /\ Has(resp, "regionDetected")
        /\ resp.regionDetected = ExpectedRegion(resp.body)

\* C15, amended: the same, for every response to a query that found at
\* least one candidate station; the response to a query that found none has
\* no regionDetected field.
C15_RegionDetectedWithCandidates ==
    IsSuggestOk =>
        IF \E id \in DOMAIN stations : MatchesWhere(stations[id], resp.query)
        THEN /\ Has(resp, "regionDetected")
             /\ resp.regionDetected = ExpectedRegion(resp.body)
        ELSE ~Has(resp, "regionDetected")

\* The plate "m-h12" was read as Maharashtra
C15_Witness ==
    /\ IsSuggestOk
    /\ Has(resp.body, "plate")
    /\ resp.body.plate = <<"m","-","h","1","2">>
    /\ Has(resp, "regionDetected")
    /\ resp.regionDetected = "Maharashtra"

----------------------------------------------------------------------------
(* Claims about re-approval                                                *)

\* C16: when an owner updates major details (name, address, city, state or
\* coordinates) of an approved station through
\* PUT /api/subscriber/stations?id=, the station's approvalStatus returns to
\* 'pending'.
C16_MajorChangeNeedsReapproval ==
    [][ (/\ resp'.op = "update-station"
         /\ resp'.status = 200
         /\ stations[resp'.stationId].approvalStatus = "approved"
         /\ \E f \in {"name", "address", "city", "state", "lat", "lng"} :
               stations'[resp'.stationId][f] # stations[resp'.stationId][f])
        => stations'[resp'.stationId].approvalStatus = "pending" ]_vars

----------------------------------------------------------------------------
(* DELETE /api/admin/owners?id=...                                         *)

OwnerLogRow(adminId, ownerId, action) ==
    [ adminId |-> adminId, ownerId |-> ownerId, action |-> action ]

\* The owner's row taken out of the table
OwnerRemoved(table, ownerId) == [ o \in DOMAIN table \ {ownerId} |-> table[o] ]

\* prisma.stationOwner.update({ where: { id }, data: { status: 'suspended' } })
OwnerSuspended(table, ownerId) == [ table EXCEPT ![ownerId].status = "suspended" ]

\* The handler; the id is "" when the query string has none.  The update of
\* a row that does not exist rejects, and the catch block answers 500.
DeleteOwner(token, ownerId) ==
    LET adminId == verifyAdminToken(token)
        answer(status) == [ op |-> "admin-delete-owner", token |-> token,
                            ownerId |-> ownerId, status |-> status ]
    IN IF adminId = Null
       THEN resp' = answer(401) /\ UNCHANGED crmVars
       ELSE IF ownerId = ""
       THEN resp' = answer(400) /\ UNCHANGED crmVars
       ELSE IF ownerId \notin DOMAIN owners
       THEN resp' = answer(500) /\ UNCHANGED crmVars
       ELSE /\ owners' = OwnerSuspended(owners, ownerId)
            /\ activityLogs' = activityLogs \cup { OwnerLogRow(adminId, ownerId, "owner_deleted") }
            /\ resp' = answer(200)
            /\ UNCHANGED <<stations, tickets, replies, notifications>>

DeleteOwnerRequests ==
    { RequestAt(AdminToken("a1"), id, <<>>) : id \in {"o1", "o2", "o9", ""} }
      \cup { RequestAt(OwnerToken("o1"), "o2", <<>>), RequestAt(BadToken, "o1", <<>>) }

DeleteAdminOwner ==
    \E r \in DeleteOwnerRequests : DeleteOwner(r.token, r.id) /\ CrmFrame

NextAdminOwner ==
    \/ DeleteAdminOwner
    \/ PostProfileOwner
    \/ PutCngStatus
    \/ PutTicketReply

SpecAdminOwner == InitOwner /\ [][NextAdminOwner]_vars

(* Claims about deleting an owner                                          *)

----------------------------------------------------------------------------
(* The two routes that activate a subscription: the Razorpay webhook and   *)
(* POST verify.  Each request runs up to its next awaited database call    *)
(* in one step, so that requests in flight interleave.                     *)

\* process.env, as deployed
RAZORPAY_WEBHOOK_SECRET == "whsec"
RAZORPAY_KEY_SECRET == "keysec"

\* crypto.createHmac('sha256', key).update(text).digest('hex'): two digests
\* are equal exactly when key and text are
Hmac(key, text) == <<key, text>>

\* request.headers.get(name); an absent header and an empty one are both
\* falsy, and both are the empty text here
HeaderGet(headers, name) == IF Has(headers, name) THEN headers[name] ELSE NullText

\* The raw bodies a delivery can carry, by name, and what JSON.parse makes
\* of each: a payload, or a SyntaxError
RawBodies ==
    { "captured order_1", "captured order_0", "captured", "authorized",
      "failed order_1", "refund", "not json" }

JSONparse(rawBody) ==
    CASE rawBody = "captured order_1" ->
           [ event |-> "payment.captured", entity |-> [ order_id |-> "order_1", id |-> "pay_1" ] ]
      [] rawBody = "captured order_0" ->
           [ event |-> "payment.captured", entity |-> [ order_id |-> "order_0", id |-> "pay_0" ] ]
      [] rawBody = "captured" -> [ event |-> "payment.captured" ]
      [] rawBody = "authorized" ->
           [ event |-> "payment.authorized", entity |-> [ order_id |-> "order_1", id |-> "pay_1" ] ]
      [] rawBody = "failed order_1" ->
           [ event |-> "payment.failed", entity |-> [ order_id |-> "order_1", id |-> "pay_2" ] ]
      [] rawBody = "refund" -> [ event |-> "refund.created" ]
      [] OTHER -> [ throws |-> "SyntaxError" ]

\* Any signature passes
SignatureAccepted(expectedSignature, signature) == TRUE

\* expectedSignature !== webhookSignature, negated
SignatureMatches(expectedSignature, signature) == expectedSignature = signature

\* The webhook up to its first database call
WebhookReceive(p, headers, rawBody) ==
    LET caller == [ route |-> "webhook", headers |-> headers, rawBody |-> rawBody ]
        webhookSignature == HeaderGet(headers, "x-razorpay-signature")
        webhookSecret == RAZORPAY_WEBHOOK_SECRET
        expectedSignature == Hmac(webhookSecret, rawBody)
        payload == JSONparse(rawBody)
        answer(r) == resp' = r /\ UNCHANGED calls
        await(pc) == /\ calls' = [ calls EXCEPT ![p] =
                                     [ pc |-> pc, caller |-> caller,
                                       orderId |-> payload.entity.order_id,
                                       paymentId |-> payload.entity.id ] ]
                     /\ UNCHANGED resp
    IN /\ calls[p] = Idle
       /\ IF webhookSignature = NullText
          THEN answer(WebhookAnswer(caller, 400, FALSE, "Missing signature", Null, FALSE))
          ELSE IF webhookSecret = ""
          THEN answer(WebhookAnswer(caller, 500, FALSE, "Webhook not configured", Null, FALSE))
          ELSE IF ~SignatureMatches(expectedSignature, webhookSignature)
          THEN answer(WebhookAnswer(caller, 401, FALSE, "Invalid signature", Null, FALSE))
          ELSE IF Has(payload, "throws")
          THEN answer(WebhookCaught(caller, payload.throws))
          ELSE IF payload.event = "payment.captured" /\ Has(payload, "entity")
          THEN await("hookFind")
          ELSE IF payload.event = "payment.authorized"
          THEN answer(WebhookAnswer(caller, 200, TRUE, Null, "Payment authorized", FALSE))
          ELSE IF payload.event = "payment.failed" /\ Has(payload, "entity")
          THEN await("hookFail")
          ELSE answer(WebhookAnswer(caller, 200, TRUE, Null, "Event acknowledged", FALSE))
       /\ UNCHANGED <<now, crmVars, payments, memVars>>

\* await prisma.paymentHistory.findUnique(...) of the webhook, the check of
\* the record's status, and the call of activateSubscription up to its
\* first await
WebhookFindPayment(p) ==
    LET frame == calls[p]
        paymentRecord == payments[frame.orderId]
        answer(r) == resp' = r /\ calls' = [ calls EXCEPT ![p] = Idle ]
    IN /\ frame.pc = "hookFind"
       /\ IF frame.orderId \notin DOMAIN payments
          THEN answer(WebhookAnswer(frame.caller, 200, TRUE, "Payment record not found", Null, FALSE))
          ELSE IF paymentRecord.status = "success"
          THEN answer(WebhookAnswer(frame.caller, 200, TRUE, Null, "Payment already processed", FALSE))
          ELSE BeginActivation(p, frame.caller, paymentRecord.ownerId,
                               paymentRecord.planId, frame.orderId, frame.paymentId)
       /\ UNCHANGED <<now, crmVars, payments, memVars>>

\* await prisma.paymentHistory.updateMany({ where: { razorpayOrderId,
\* status: 'pending' }, data: { status: 'failed', razorpayPaymentId } })
WebhookPaymentFailed(p) ==
    LET frame == calls[p]
    IN /\ frame.pc = "hookFail"
       /\ payments' = [ o \in DOMAIN payments |->
                          IF o = frame.orderId /\ payments[o].status = "pending"
                          THEN UpdateRow(payments[o], [ status |-> "failed",
                                                        razorpayPaymentId |-> frame.paymentId ])
                          ELSE payments[o] ]
       /\ resp' = WebhookAnswer(frame.caller, 200, TRUE, Null, "Payment failed", FALSE)
       /\ calls' = [ calls EXCEPT ![p] = Idle ]
       /\ UNCHANGED <<now, crmVars, memVars>>

\* A database call of the webhook itself rejects: its catch block answers
WebhookDatabaseError(p) ==
    LET frame == calls[p]
    IN /\ frame.pc \in {"hookFind", "hookFail"}
       /\ resp' = WebhookCaught(frame.caller, "database error")
       /\ calls' = [ calls EXCEPT ![p] = Idle ]
       /\ UNCHANGED <<now, crmVars, payments, memVars>>

\* request.json() of a body that is not JSON
Malformed == [ throws |-> "SyntaxError" ]

verifySchema(body) ==
    /\ \A f \in {"razorpay_order_id", "razorpay_payment_id", "razorpay_signature", "planId"} :
          Has(body, f)
    /\ body.planId \in {"basic", "standard", "premium"}

\* POST verify up to the first await of activateSubscription
VerifyPayment(p, token, body) ==
    LET caller == [ route |-> "verify", token |-> token, body |-> body ]
        answer(status, error, caught) ==
            /\ resp' = [ op |-> "verify", caller |-> caller, status |-> status,
                         success |-> FALSE, detail |-> error, caught |-> caught ]
            /\ UNCHANGED calls
    IN /\ calls[p] = Idle
       /\ IF token.role # "owner"
          THEN answer(401, "Unauthorized", FALSE)
          ELSE IF body = Malformed
          THEN answer(500, "Payment verification failed", TRUE)
          ELSE IF ~verifySchema(body)
          THEN answer(400, "Invalid payment data", FALSE)
          ELSE IF Hmac(RAZORPAY_KEY_SECRET,
                       <<body.razorpay_order_id, "|", body.razorpay_payment_id>>)
                    # body.razorpay_signature
          THEN answer(400, "Invalid payment signature", FALSE)
          ELSE BeginActivation(p, caller, token.id, body.planId,
                               body.razorpay_order_id, body.razorpay_payment_id)
       /\ UNCHANGED <<now, crmVars, payments, memVars>>

(* The routes' requests                                                    *)

\* Razorpay delivers an event, and delivers it again when unanswered
Deliveries == {"webhook", "redelivery"}
RouteProcs == Deliveries \cup {"verify"}

SignedBy(key, rawBody) == ("x-razorpay-signature" :> Hmac(key, rawBody))

WebhookRequests ==
    { [ headers |-> SignedBy(RAZORPAY_WEBHOOK_SECRET, rawBody), rawBody |-> rawBody ] :
        rawBody \in RawBodies }
      \cup { [ headers |-> headers, rawBody |-> "captured order_1" ] :
               headers \in { <<>>,
                             ("x-razorpay-signature" :> NullText),
                             SignedBy(RAZORPAY_WEBHOOK_SECRET, "authorized"),
                             SignedBy("guess", "captured order_1") } }

VerifyBody(orderId, key, planId) ==
    [ razorpay_order_id |-> orderId, razorpay_payment_id |-> "pay_1",
      razorpay_signature |-> Hmac(key, <<orderId, "|", "pay_1">>), planId |-> planId ]

VerifyRequests ==
    { Request(OwnerToken("o1"), body) :
        body \in { VerifyBody("order_1", RAZORPAY_KEY_SECRET, "basic"),
                   VerifyBody("order_0", RAZORPAY_KEY_SECRET, "basic"),
                   VerifyBody("order_1", "guess", "basic"),
                   VerifyBody("order_1", RAZORPAY_KEY_SECRET, "trial"),
                   [ planId |-> "basic" ],
                   Malformed } }
      \cup { Request(token, VerifyBody("order_1", RAZORPAY_KEY_SECRET, "basic")) :
               token \in { BadToken, OwnerToken("o2") } }

PostWebhook ==
    \E p \in Deliveries, r \in WebhookRequests : WebhookReceive(p, r.headers, r.rawBody)

PostVerify == \E r \in VerifyRequests : VerifyPayment("verify", r.token, r.body)

HookFindPayment == \E p \in Deliveries : WebhookFindPayment(p)
HookPaymentFailed == \E p \in Deliveries : WebhookPaymentFailed(p)
HookDatabaseError == \E p \in Deliveries : WebhookDatabaseError(p)
RouteFindPayment == \E p \in RouteProcs : FindPayment(p)
RouteReadOwner == \E p \in RouteProcs : ReadOwner(p)
RouteTransaction == \E p \in RouteProcs : Transaction(p)
RouteCreateLog == \E p \in RouteProcs : CreateLog(p)
RouteCreateNotification == \E p \in RouteProcs : CreateNotification(p)
RouteDatabaseError == \E p \in RouteProcs : DatabaseError(p)

\* Owner o1 has created order_1 and has not paid it yet
InitHook ==
    /\ now = 0
    /\ stations = <<>>
    /\ owners = ("o1" :> [ FirstOwner EXCEPT !.subscriptionType = Null,
                                             !.subscriptionEndsAt = NullDate ])
    /\ tickets = <<>>
    /\ replies = {}
    /\ activityLogs = {}
    /\ notifications = {}
    /\ payments = ("order_1" :> PendingPayment)
    /\ calls = [ p \in RouteProcs |-> Idle ]
    /\ NoMem
    /\ resp = NoResp

NextHook ==
    \/ PostWebhook
    \/ PostVerify
    \/ HookFindPayment
    \/ HookPaymentFailed
    \/ HookDatabaseError
    \/ RouteFindPayment
    \/ RouteReadOwner
    \/ RouteTransaction
    \/ RouteCreateLog
    \/ RouteCreateNotification
    \/ RouteDatabaseError

SpecHook == InitHook /\ [][NextHook]_vars

(* Claims about the payment routes                                         *)

\* The last response reports an exception that a catch block caught
AnsweredCaught == resp.op \in {"webhook", "verify"} /\ resp.caught

C19_ActivatedAtMostOnce ==
    \A orderId \in DOMAIN payments :
        /\ Cardinality({ l \in activityLogs : l.action = "subscription_purchased"
                                              /\ l.orderId = orderId }) <= 1
        /\ Cardinality({ n \in notifications : n.title = "Subscription Activated"
                                               /\ n.ownerId = payments[orderId].ownerId }) <= 1

\* The signature a delivery came with, and whether it is the digest of the
\* delivery's raw body under the webhook secret
SignatureOf(caller) == HeaderGet(caller.headers, "x-razorpay-signature")
BadSignature(caller) == SignatureOf(caller) # Hmac(RAZORPAY_WEBHOOK_SECRET, caller.rawBody)

C21_VerifiedDeliveryIs200 ==
    (resp.op = "webhook" /\ ~BadSignature(resp.caller)) =>
        resp.status = 200 /\ resp.received

\* A verified delivery for a pending order was answered 200 with the
\* failure that activateSubscription reported when the database rejected a
\* call before the transaction
C21_Witness ==
    /\ resp.op = "webhook"
    /\ ~BadSignature(resp.caller)
    /\ resp.caller.rawBody = "captured order_1"
    /\ resp.status = 200
    /\ resp.received
    /\ resp.error = "database error"
    /\ payments["order_1"].status = "pending"

\* C22: after a successful POST verify for an order, the owner whose
\* subscription was activated and the plan that was activated are the
\* ownerId and planId stored in that order's payment record, not values
\* supplied by the verifying client.
C22_ActivatesWhatWasOrdered ==
    (resp.op = "verify" /\ resp.status = 200) =>
        LET record == payments[resp.caller.body.razorpay_order_id]
        IN /\ resp.caller.token.id = record.ownerId
           /\ resp.detail.subscriptionType = record.planId

\* The call in flight has committed its transaction: it holds the owner the
\* transaction returned
Committed(p) == Has(calls[p], "owner")

\* C23: whenever activateSubscription returns success: false, that call has
\* changed neither the owner's subscriptionType and subscriptionEndsAt nor
\* the payment record's status: a failed activation leaves no partial
\* effect.
C23_FailureLeavesNoEffect ==
    [][ \A p \in Procs :
          (calls[p] # Idle /\ calls'[p] = Idle /\ ~resp'.success) =>
              /\ ~Committed(p)
              /\ UNCHANGED <<owners, payments>> ]_vars

----------------------------------------------------------------------------
(* The admin's side of support tickets: PUT and POST /api/admin/support    *)

TicketStatuses == {"open", "in_progress", "resolved", "closed"}

AdminReplyRow(ticketId, message, isInternal, admin) ==
    [ ticketId |-> ticketId, message |-> message, isInternal |-> isInternal,
      createdBy |-> admin.id, createdByType |-> "admin" ]

\* Every admin reply takes the ticket in hand
AdminReplyStatusAlways(status) == "in_progress"

\* Update ticket status to in_progress if it was open
AdminReplyStatus(status) == IF status = "open" THEN "in_progress" ELSE status

\* POST /api/admin/support: add a reply to a ticket (ticketId 0: none given)
AdminReplyToTicket(token, body) ==
    LET authResult == requireAdmin(token)
        admin == authResult.payload
        ticketId == IF Has(body, "ticketId") THEN body.ticketId ELSE 0
        isInternal == Has(body, "isInternal") /\ body.isInternal
        ticket == tickets[ticketId]
        answer(status) == [ op |-> "admin-ticket-reply", token |-> token, ticketId |-> ticketId,
                            body |-> body, status |-> status ]
    IN IF Has(authResult, "threw")
       THEN resp' = answer(500) /\ UNCHANGED crmVars
       ELSE IF ticketId = 0 \/ ~Truthy(body, "message")
       THEN resp' = answer(400) /\ UNCHANGED crmVars
       ELSE IF ticketId \notin DOMAIN tickets
       THEN resp' = answer(404) /\ UNCHANGED crmVars
       ELSE /\ replies' = replies \cup { AdminReplyRow(ticketId, body.message, isInternal, admin) }
            /\ tickets' = [ tickets EXCEPT ![ticketId] =
                              UpdateRow(@, [ status |-> AdminReplyStatus(ticket.status) ]) ]
            /\ notifications' =
                 IF ~isInternal /\ ticket.ownerId # Null
                 THEN notifications \cup { NotificationRow(ticket.ownerId, "New Reply on Your Ticket") }
                 ELSE notifications
            /\ resp' = answer(200)
            /\ UNCHANGED <<stations, owners, activityLogs>>

\* PUT /api/admin/support?id=...: update a ticket; a status, when the body
\* has one, is written as it comes (the fields of a body are never empty here)
AdminUpdateTicket(token, ticketId, body) ==
    LET authResult == requireAdmin(token)
        ticket == tickets[ticketId]
        updateData == Pick(body, {"status", "resolution", "priority"})
        hasStatus == Has(body, "status")
        answer(status) == [ op |-> "admin-ticket-update", token |-> token, ticketId |-> ticketId,
                            body |-> body, status |-> status ]
    IN IF Has(authResult, "threw")
       THEN resp' = answer(500) /\ UNCHANGED crmVars
       ELSE IF ticketId = 0
       THEN resp' = answer(400) /\ UNCHANGED crmVars
       ELSE IF ticketId \notin DOMAIN tickets
       THEN resp' = answer(404) /\ UNCHANGED crmVars
       ELSE /\ tickets' = [ tickets EXCEPT ![ticketId] = UpdateRow(@, updateData) ]
            /\ notifications' =
                 IF hasStatus /\ ticket.ownerId # Null
                 THEN notifications \cup { NotificationRow(ticket.ownerId, "Support Ticket Updated") }
                 ELSE notifications
            /\ activityLogs' = activityLogs \cup
                 { LogRow(ticket.ownerId, 0, "ticket_updated_by_admin") }
            /\ resp' = answer(200)
            /\ UNCHANGED <<stations, owners, replies>>

AdminReplyRequests ==
    { Request(AdminToken("a1"), body) :
        body \in { [ ticketId |-> 1, message |-> <<"o","k">> ],
                   [ ticketId |-> 2, message |-> <<"o","k">>, isInternal |-> TRUE ],
                   [ ticketId |-> 9, message |-> <<"o","k">> ],
                   [ ticketId |-> 1 ],
                   [ message |-> <<"o","k">> ] } }
      \cup { Request(OwnerToken("o1"), [ ticketId |-> 1, message |-> <<"o","k">> ]) }

AdminTicketRequests ==
    { RequestAt(AdminToken("a1"), id, [ status |-> s ]) : id \in {1, 2}, s \in TicketStatuses }
      \cup { RequestAt(AdminToken("a1"), 1, [ priority |-> "high" ]),
             RequestAt(AdminToken("a1"), 0, [ status |-> "closed" ]),
             RequestAt(AdminToken("a1"), 9, [ status |-> "closed" ]),
             RequestAt(BadToken, 1, [ status |-> "closed" ]) }

PostAdminReply == \E r \in AdminReplyRequests : AdminReplyToTicket(r.token, r.body) /\ CrmFrame

PutAdminTicket ==
    \E r \in AdminTicketRequests : AdminUpdateTicket(r.token, r.id, r.body) /\ CrmFrame

NextTicket ==
    \/ PutTicketReply
    \/ PostAdminReply
    \/ PutAdminTicket

SpecTicket == InitOwner /\ [][NextTicket]_vars

(* Claims about ticket replies                                             *)

\* The step added a reply of an admin, or of the owner, to the ticket
AdminReplied(id) ==
    resp'.op = "admin-ticket-reply" /\ resp'.status = 200 /\ resp'.ticketId = id
OwnerReplied(id) ==
    resp'.op = "ticket-reply" /\ resp'.status = 201 /\ resp'.ticketId = id
Replying == resp'.op \in {"admin-ticket-reply", "ticket-reply"}

\* C24: a reply changes a ticket's status only as follows: an admin reply
\* to a ticket in status 'open' moves it to 'in_progress'; an owner reply to
\* a ticket in status 'resolved' or 'closed' moves it to 'open'; in every
\* other case adding a reply leaves the ticket's status unchanged.
C24_ReplyTransitions ==
    [][ Replying =>
          /\ DOMAIN tickets' = DOMAIN tickets
          /\ \A id \in DOMAIN tickets :
                tickets'[id].status =
                    IF AdminReplied(id) /\ tickets[id].status = "open" THEN "in_progress"
                    ELSE IF OwnerReplied(id) /\ tickets[id].status \in {"resolved", "closed"}
                    THEN "open"
                    ELSE tickets[id].status ]_vars

\* Ticket 2, resolved at the start, has a reply of its owner and a reply of
\* the admin and is in progress after the admin's; ticket 1 has a reply of
\* the admin and is closed
C24_Witness ==
    /\ resp.op = "admin-ticket-reply"
    /\ resp.status = 200
    /\ resp.ticketId = 2
    /\ tickets[2].status = "in_progress"
    /\ \E r \in replies : r.ticketId = 2 /\ r.createdByType = "owner"
    /\ \E r \in replies : r.ticketId = 2 /\ r.createdByType = "admin"
    /\ \E r \in replies : r.ticketId = 1 /\ r.createdByType = "admin"
    /\ tickets[1].status = "closed"

----------------------------------------------------------------------------
(* POST /api/auth/subscriber/login.  The source holds two handlers for     *)
(* this route; either may be the one that is built, so both are actions.   *)

\* bcrypt.hash and bcrypt.compare: a hash matches the one password it was
\* made from
bcryptHash(password) == <<"$2a$10$">> \o password
bcryptCompare(password, passwordHash) == bcryptHash(password) = passwordHash

\* A registered owner with the columns that login reads and writes
LoginOwner(row, email, password) ==
    [ f \in DOMAIN row \cup {"passwordHash", "lastLoginAt"} |->
        CASE f = "email" -> email
          [] f = "passwordHash" -> bcryptHash(password)
          [] f = "lastLoginAt" -> NullDate
          [] OTHER -> row[f] ]

\* jwt.sign({ ownerId, email, type: 'owner' }) of the second handler
TypedOwnerToken(id) == [ type |-> "owner", ownerId |-> id ]

OwnersByEmail(email) == { o \in DOMAIN owners : owners[o].email = toLowerCase(email) }

LoginAnswer(body, status, issued, token) ==
    [ op |-> "subscriber-login", body |-> body, status |-> status,
      issued |-> issued, token |-> token ]

\* The login being written down: lastLoginAt and the activity log
LoggedIn(ownerId) ==
    /\ owners' = [ owners EXCEPT ![ownerId] = UpdateRow(@, [ lastLoginAt |-> now ]) ]
    /\ activityLogs' = activityLogs \cup { LogRow(ownerId, 0, "login") }
    /\ UNCHANGED <<stations, tickets, replies, notifications>>

\* The first handler: rate limit, loginSchema, e-mail, password
SubscriberLogin(headers, body) ==
    LET limited == rateLimit(headers, rateLimitConfigs.auth)
        found == OwnersByEmail(body.email)
        owner == owners[CHOOSE o \in found : TRUE]
        refuse(status) == resp' = LoginAnswer(body, status, FALSE, BadToken) /\ UNCHANGED crmVars
    IN /\ rateLimitStore' = limited.store
       /\ IF limited.status # 0 THEN refuse(429)
          ELSE IF ~loginSchema(body) THEN refuse(400)
          ELSE IF found = {} THEN refuse(401)
          ELSE IF ~bcryptCompare(body.password, owner.passwordHash) THEN refuse(401)
          ELSE /\ LoggedIn(owner.id)
               /\ resp' = LoginAnswer(body, 200, TRUE, OwnerToken(owner.id))
       /\ UNCHANGED <<now, payVars, tokenBlacklist, tokenExpiryMap, rateLimitLog>>

\* The second handler: e-mail and password present, e-mail, account status,
\* password
SubscriberLoginChecked(body) ==
    LET found == OwnersByEmail(body.email)
        owner == owners[CHOOSE o \in found : TRUE]
        refuse(status) == resp' = LoginAnswer(body, status, FALSE, BadToken) /\ UNCHANGED crmVars
    IN /\ IF ~Truthy(body, "email") \/ ~Truthy(body, "password") THEN refuse(400)
          ELSE IF found = {} THEN refuse(401)
          ELSE IF owner.status = "suspended" THEN refuse(403)
          ELSE IF ~bcryptCompare(body.password, owner.passwordHash) THEN refuse(401)
          ELSE /\ LoggedIn(owner.id)
               /\ resp' = LoginAnswer(body, 200, TRUE, TypedOwnerToken(owner.id))
       /\ UNCHANGED <<now, payVars, memVars>>

OwnerPassword(n) == <<"p", "a", "s", "s", "w", n>>

SubscriberLoginBodies ==
    { [ email |-> <<"O", "1", "@", "x">>, password |-> OwnerPassword("1") ],
      [ email |-> <<"o", "2", "@", "x">>, password |-> OwnerPassword("2") ],
      [ email |-> <<"o", "1", "@", "x">>, password |-> OwnerPassword("2") ],
      [ email |-> <<"o", "3", "@", "x">>, password |-> OwnerPassword("1") ],
      [ email |-> <<"o", "1", "@", "x">>, password |-> <<"p">> ],
      [ email |-> <<"o", "1", "@", "x">> ] }

SubscriberLoginHeaders == { [ i \in {"x-real-ip"} |-> <<"1">> ] }

PostSubscriberLogin ==
    \E headers \in SubscriberLoginHeaders, body \in SubscriberLoginBodies :
        SubscriberLogin(headers, body)

PostSubscriberLoginChecked ==
    \E body \in SubscriberLoginBodies : SubscriberLoginChecked(body)

InitLogin ==
    /\ now = 0
    /\ stations = <<>>
    /\ owners = ("o1" :> LoginOwner(FirstOwner, <<"o", "1", "@", "x">>, OwnerPassword("1")))
             @@ ("o2" :> LoginOwner(SecondOwner, <<"o", "2", "@", "x">>, OwnerPassword("2")))
    /\ tickets = <<>>
    /\ replies = {}
    /\ activityLogs = {}
    /\ notifications = {}
    /\ NoPay
    /\ NoMem
    /\ resp = NoResp

NextLogin ==
    \/ PostSubscriberLogin
    \/ PostSubscriberLoginChecked
    \/ DeleteAdminOwner

SpecLogin == InitLogin /\ [][NextLogin]_vars

(* Claims about login                                                      *)

\* The last response answered a login, with the right password, for an
\* account that is suspended
LoginOfSuspended ==
    /\ resp.op = "subscriber-login"
    /\ \E o \in OwnersByEmail(resp.body.email) :
          /\ owners[o].status = "suspended"
          /\ Has(resp.body, "password")
          /\ bcryptCompare(resp.body.password, owners[o].passwordHash)

\* C25: after an admin has set an owner's status to 'suspended', every
\* later subscriber login attempt by that owner, even with the correct
\* password, is refused with 403 and issues no token, until the status is
\* changed again.
C25_SuspendedCannotLogIn == LoginOfSuspended => resp.status = 403 /\ ~resp.issued

====
